---- MODULE Spec2Model ----
(***************************************************************************)
(* A model of nori (b-r-u/nori): the route-collection file (route.rs),     *)
(* the network with its edge counters (network.rs) and the polyline        *)
(* builder (polyline.rs).                                                  *)
(*                                                                         *)
(* A file is a sequence of fields ("tokens"): one token per fixed-width    *)
(* integer or float that bincode writes, a length token in front of every  *)
(* string and Vec.  Decoding parses that sequence field by field, as       *)
(* bincode does, and fails when the file ends inside a value.              *)
(***************************************************************************)
EXTENDS Integers, Sequences, FiniteSets, TLC

VARIABLES
    \* RouteCollectionWriter<File> and the file it owns
    wstate,        \* "idle" | "open" | "finished" | "dropped"
    header,        \* RouteCollectionWriter.header
    buf,           \* bytes held by the BufWriter, not yet in the file
    wpos,          \* file offset (1-based) the BufWriter writes at next
    disk,          \* the content of the file
    written,       \* history: the routes write_route returned Ok for
    torn,          \* history: a failed write_route left part of a record
    \* RouteCollectionReader<File>
    rstate,        \* "closed" | "open" | "failed"
    rfile,         \* the content of the file the reader was opened on
    rpos,          \* read offset (1-based) of the BufReader
    rheader,       \* RouteCollectionReader.header
    route_index,   \* RouteCollectionReader.route_index
    items,         \* history: the Some(..) items next() has returned
    sawNone,       \* history: next() has returned None
    \* Network, and Network::from_path while it reads the file
    phase,         \* "idle" | "loading" | "loaded"
    nodes_vec,     \* Network.nodes_vec: the nodes' OSM ids
    edges_vec,     \* Network.edges_vec
    edges_map,     \* Network.edges_map: (NodeId, NodeId) -> EdgeId
    osm_2_node_id, \* Network.osm_2_node_id: OsmNodeId -> NodeId
    entry,         \* from_path: the kind of the file entry being read
    edge_index,    \* from_path: the local edge_index of the Edges arm
    bump_arg,      \* <<nodes>> while bump_edges(nodes) is being called
    lookup_fails,  \* "lookup fail" lines the latest bump_edges printed
    \* PolylineCollection::new(net) while it runs, and its result
    pstate,        \* "idle" | "building" (both loops) | "done" (returned)
    polylines,     \* poly_collection.polylines: each the OSM ids of its points
    membership,    \* poly_collection.membership: (OsmNodeId, OsmNodeId) -> u32
    seen,          \* the closure's set of processed edges
    todo1,         \* keys of adja the first loop has yet to reach
    todo2,         \* keys of adja the second loop has yet to reach
    \* DensityClusters (density.rs) or Weighted (sampling.rs), built by from_csv
    dstate,        \* "none" | "built" | "err" (Err returned) | "panic"
    dkind,         \* "clusters" (DensityClusters) | "weighted" (Weighted)
    dpoints,       \* the index's points: Vec<Point4326>
    dweights,      \* the index's weights: Vec<u32>
    dkdtree,       \* the index's kdtree: the Point3035 of each entry
    dmax_dist,     \* Weighted.max_dist
    dcall,         \* <<from, radius>> of the latest sampling call, or <<>>
    dresult,       \* what it returned: <<"None">>, <<"Some", p>>, <<"panic">>
    \* run (main.rs) from its call of sample on, and sample itself
    run_pc,        \* "idle" | "draw" | "route" | "write" | "bump" | "finish" |
                   \* "geojson" | "png" | "compare" | "ok" | "error" | "failed"
    run_err,       \* the call whose Err ended the run, or "none"
    run_opts,      \* which of --geojson, --png, --compare are given
    run_outputs,   \* history: the steps after sample that were executed
    number_of_samples,
    sample_i,      \* sample: i
    draw_no,       \* history: draws made so far for sample i
    sample_source, \* sample: source, with the number of the draw it is from
    sample_dest,   \* sample: what gen_destination returned, likewise
    sample_ab,     \* sample: <<a, b>> once assigned, else <<>>
    sample_res,    \* sample: <<res>> once there is one, else <<>>
    routed,        \* history: the calls of find_route
    bumps,         \* history: the calls of bump_edges
    \* orientation and orientation_diff (compare.rs), applied to two lines
    line_a,        \* a Line<[f64; 2]>: [from, to]
    line_b,
    orient_out,    \* <<orientation(line_a)>> once computed, else <<>>
    diff_out,      \* <<orientation_diff(line_a, line_b)>> once computed
    \* compare (compare.rs) with geojson_to_rtree
    gj_doc,        \* the content of the reference file
    cmp_state,     \* "none" | "err" (compare returned Err) | "ok"
    ref_segments,  \* the segments of the reference RTree
    files_created, \* whether connections.geojson, comparison.csv were created
    csv_rows,      \* the records serialized to comparison.csv
    \* BoundingBox::get_3035_bounds (bounding_box.rs), applied to one box
    bbox,          \* the BoundingBox: [sw, ne], each a Point4326
    bbox_out,      \* <<the BoundingBox3035 returned>>, else <<>>
    \* GeoJsonWriter<W> and the FeatureWriter borrowed from it
    gw_state,      \* "none" | "open" | "gone" (finished or dropped)
    is_first_feature, \* GeoJsonWriter.is_first_feature
    gw_finished,   \* GeoJsonWriter.finished
    gw_text,       \* what has been handed to the BufWriter, piece by piece
    gw_write_failed, \* history: a write to the BufWriter returned Err
    fw_state,      \* "none" | "open": whether a FeatureWriter is alive
    fw_is_first,   \* FeatureWriter.is_first
    fw_finished,   \* FeatureWriter.finished
    \* compare (compare.rs) once both RTrees are built
    ref_traffic,   \* reference_traffic: its segments in iteration order
    sim_traffic,   \* simulated_traffic: its segments
    cm_state,      \* "none" | "running" | "ok" | "err" (compare returned Err)
    cm_next,       \* the position of the next ref_segment of the loop
    cm_features,   \* history: the features added to connections.geojson
    cm_records     \* history: the records serialized to comparison.csv

routeVars == <<wstate, header, buf, wpos, disk, written, torn>>
readerVars == <<rstate, rfile, rpos, rheader, route_index, items, sawNone>>
netVars ==
    <<phase, nodes_vec, edges_vec, edges_map, osm_2_node_id, entry,
      edge_index, bump_arg, lookup_fails>>
polyVars == <<pstate, polylines, membership, seen, todo1, todo2>>
densVars ==
    <<dstate, dkind, dpoints, dweights, dkdtree, dmax_dist, dcall, dresult>>
pipeVars ==
    <<run_pc, run_err, run_opts, run_outputs, number_of_samples, sample_i,
      draw_no, sample_source, sample_dest, sample_ab, sample_res, routed,
      bumps>>
fileVars == <<routeVars, readerVars>>
orientVars == <<line_a, line_b, orient_out, diff_out>>
geoVars == <<gj_doc, cmp_state, ref_segments, files_created, csv_rows>>
cmpVars == <<orientVars, geoVars>>
boxVars == <<bbox, bbox_out>>
gwVars ==
    <<gw_state, is_first_feature, gw_finished, gw_text, gw_write_failed,
      fw_state, fw_is_first, fw_finished>>
matchVars ==
    <<ref_traffic, sim_traffic, cm_state, cm_next, cm_features, cm_records>>
moreVars == <<boxVars, gwVars, matchVars>>
restVars == <<densVars, pipeVars, cmpVars, moreVars>>
notDens == <<fileVars, netVars, polyVars, pipeVars, cmpVars, moreVars>>
\* what run and sample never touch; what bump_edges leaves of the network
notPipe == <<readerVars, polyVars, densVars, cmpVars, moreVars>>
netRest ==
    <<phase, nodes_vec, edges_map, osm_2_node_id, entry, edge_index, bump_arg>>
vars == <<fileVars, netVars, polyVars, restVars>>
\* what the operations on a route file leave alone, those on a network, and
\* the polyline builder
notFile == <<netVars, polyVars, restVars>>
notNet == <<fileVars, polyVars, restVars>>
notPoly == <<fileVars, netVars, restVars>>

----------------------------------------------------------------------------
(* Bounds *)

\* write_route calls (successful or failed) in one run
MaxRoutes == 2
\* longest node_ids of a written route
MaxIds == 1
\* tokens that follow the header in a file the reader is given
MaxBody == 7
\* largest number_of_routes in the header of a file the reader is given
MaxCount == 2
\* largest value an edge counter is driven to
MaxNumber == 2
\* edges of a network that is split into polylines
MaxPolyEdges == 4
\* data rows of a CSV file of weighted points
MaxRows == 2
\* draws the retry loop of sample makes for one sample
MaxDraws == 2
\* positions of a LineString of the reference file
MaxPositions == 3

----------------------------------------------------------------------------
(* Values *)

\* major_version / minor_version written by RouteCollectionWriter::new
MajorVersion == 0
MinorVersion == 2

\* osrm_file and scenario strings (a string is a sequence of characters)
StringSet == {<<>>, <<7>>}

RouteSet ==
    [start_coord : {<<1, 2>>},
     end_coord : {<<3, 4>>},
     node_ids : UNION {[1..n -> {1, 2}] : n \in 0..MaxIds},
     distance : {5, 6}]

NoHeader ==
    [major_version |-> 0, minor_version |-> 0, osrm_file |-> <<>>,
     scenario |-> <<>>, number_of_routes |-> 0]

----------------------------------------------------------------------------
(* bincode: serialize_into *)

EncodeString(s) == <<Len(s)>> \o s

EncodeHeader(h) ==
    <<h.major_version, h.minor_version>> \o EncodeString(h.osrm_file)
        \o EncodeString(h.scenario) \o <<h.number_of_routes>>

\* faulty variant: the end coordinate is written before the start coordinate
EncodeRouteEndFirst(r) ==
    <<r.end_coord[1], r.end_coord[2], r.start_coord[1], r.start_coord[2]>>
        \o <<Len(r.node_ids)>> \o r.node_ids \o <<r.distance>>

EncodeRoute(r) ==
    <<r.start_coord[1], r.start_coord[2], r.end_coord[1], r.end_coord[2]>>
        \o <<Len(r.node_ids)>> \o r.node_ids \o <<r.distance>>

(* bincode: deserialize_from.  Each reader returns [ok, value, next]: next  *)
(* is the offset after the value; on failure everything up to the end of    *)
(* the file has been consumed.                                              *)

Eof(f) == Len(f) + 1

ReadTok(f, p) ==
    IF p <= Len(f)
    THEN [ok |-> TRUE, value |-> f[p], next |-> p + 1]
    ELSE [ok |-> FALSE, value |-> 0, next |-> Eof(f)]

ReadSeq(f, p) ==
    LET n == ReadTok(f, p) IN
    IF n.ok /\ n.next + n.value <= Eof(f)
    THEN [ok |-> TRUE, value |-> SubSeq(f, n.next, n.next + n.value - 1),
          next |-> n.next + n.value]
    ELSE [ok |-> FALSE, value |-> <<>>, next |-> Eof(f)]

DecodeHeader(f, p) ==
    LET major == ReadTok(f, p)
        minor == ReadTok(f, major.next)
        osrm == ReadSeq(f, minor.next)
        scen == ReadSeq(f, osrm.next)
        count == ReadTok(f, scen.next)
    IN  IF major.ok /\ minor.ok /\ osrm.ok /\ scen.ok /\ count.ok
        THEN [ok |-> TRUE,
              value |-> [major_version |-> major.value,
                         minor_version |-> minor.value,
                         osrm_file |-> osrm.value,
                         scenario |-> scen.value,
                         number_of_routes |-> count.value],
              next |-> count.next]
        ELSE [ok |-> FALSE, value |-> NoHeader, next |-> Eof(f)]

DecodeRoute(f, p) ==
    LET slat == ReadTok(f, p)
        slon == ReadTok(f, slat.next)
        elat == ReadTok(f, slon.next)
        elon == ReadTok(f, elat.next)
        ids == ReadSeq(f, elon.next)
        dist == ReadTok(f, ids.next)
    IN  IF slat.ok /\ slon.ok /\ elat.ok /\ elon.ok /\ ids.ok /\ dist.ok
        THEN [ok |-> TRUE,
              value |-> [start_coord |-> <<slat.value, slon.value>>,
                         end_coord |-> <<elat.value, elon.value>>,
                         node_ids |-> ids.value,
                         distance |-> dist.value],
              next |-> dist.next]
        ELSE [ok |-> FALSE, value |-> <<>>, next |-> Eof(f)]

----------------------------------------------------------------------------
(* std::io: BufWriter<File> *)

Max(a, b) == IF a >= b THEN a ELSE b

\* the file after writing toks at offset pos: overwrites, then extends
WriteAt(file, pos, toks) ==
    [i \in 1..Max(Len(file), pos - 1 + Len(toks)) |->
        IF i >= pos /\ i < pos + Len(toks) THEN toks[i - pos + 1] ELSE file[i]]

\* BufWriter::flush_buf: the buffered bytes go to the file at the cursor
Flushed(file, pos, pending) == WriteAt(file, pos, pending)

----------------------------------------------------------------------------
(* std::collections::HashMap *)

EmptyMap == [k \in {} |-> 0]

\* HashMap::insert: a later value for the same key replaces the earlier one
MapInsert(m, k, v) == [x \in (DOMAIN m) \cup {k} |-> IF x = k THEN v ELSE m[x]]

\* no network in this run
NetIdle ==
    /\ phase = "idle"
    /\ nodes_vec = <<>>
    /\ edges_vec = <<>>
    /\ edges_map = EmptyMap
    /\ osm_2_node_id = EmptyMap
    /\ entry = "none"
    /\ edge_index = 0
    /\ bump_arg = <<>>
    /\ lookup_fails = 0

\* no polyline collection in this run
PolyIdle ==
    /\ pstate = "idle"
    /\ polylines = <<>>
    /\ membership = EmptyMap
    /\ seen = {}
    /\ todo1 = {}
    /\ todo2 = {}

\* no density index in this run
DensIdle ==
    /\ dstate = "none"
    /\ dkind = "clusters"
    /\ dpoints = <<>>
    /\ dweights = <<>>
    /\ dkdtree = <<>>
    /\ dmax_dist = 0
    /\ dcall = <<>>
    /\ dresult = <<>>

\* run is not under way
PipeIdle ==
    /\ run_pc = "idle"
    /\ run_err = "none"
    /\ run_opts = {}
    /\ run_outputs = {}
    /\ number_of_samples = 0
    /\ sample_i = 0
    /\ draw_no = 0
    /\ sample_source = <<>>
    /\ sample_dest = <<>>
    /\ sample_ab = <<>>
    /\ sample_res = <<>>
    /\ routed = <<>>
    /\ bumps = 0

\* a point [f64; 2] and a line, for the runs without any
NoPoint == <<[v |-> 0, neg |-> FALSE], [v |-> 0, neg |-> FALSE]>>
NoLine == [from |-> NoPoint, to |-> NoPoint]

\* orientation is not called in this run
OrientIdle ==
    /\ line_a = NoLine
    /\ line_b = NoLine
    /\ orient_out = <<>>
    /\ diff_out = <<>>

\* no reference file in this run
GeoIdle ==
    /\ gj_doc = [kind |-> "none", features |-> <<>>]
    /\ cmp_state = "none"
    /\ ref_segments = <<>>
    /\ files_created = FALSE
    /\ csv_rows = <<>>

\* nothing but the route file, the network and the polylines in this run
\* no bounding box is being projected
BoxIdle ==
    /\ bbox = <<>>
    /\ bbox_out = <<>>

\* no GeoJsonWriter
GwIdle ==
    /\ gw_state = "none"
    /\ is_first_feature = TRUE
    /\ gw_finished = FALSE
    /\ gw_text = <<>>
    /\ gw_write_failed = FALSE
    /\ fw_state = "none"
    /\ fw_is_first = TRUE
    /\ fw_finished = FALSE

\* compare is not at its loop
MatchIdle ==
    /\ ref_traffic = <<>>
    /\ sim_traffic = <<>>
    /\ cm_state = "none"
    /\ cm_next = 1
    /\ cm_features = <<>>
    /\ cm_records = <<>>

MoreIdle == BoxIdle /\ GwIdle /\ MatchIdle

RestIdle == DensIdle /\ PipeIdle /\ OrientIdle /\ GeoIdle /\ MoreIdle

----------------------------------------------------------------------------
(* RouteCollectionWriter *)

NewHeader(osrm_file, scenario) ==
    [major_version |-> MajorVersion, minor_version |-> MinorVersion,
     osrm_file |-> osrm_file, scenario |-> scenario, number_of_routes |-> 0]

\* no reader yet; f is the content of the file it will be given
ReaderClosed(f) ==
    /\ rstate = "closed"
    /\ rfile = f
    /\ rpos = 1
    /\ rheader = NoHeader
    /\ route_index = 0
    /\ items = <<>>
    /\ sawNone = FALSE

\* RouteCollectionWriter::new: File::create, then the header with count 0
\* goes into the BufWriter
InitRoute ==
    /\ wstate = "open"
    /\ \E osrm_file \in StringSet, scenario \in StringSet :
          header = NewHeader(osrm_file, scenario)
    /\ buf = EncodeHeader(header)
    /\ wpos = 1
    /\ disk = <<>>
    /\ written = <<>>
    /\ torn = FALSE
    /\ ReaderClosed(<<>>)
    /\ NetIdle
    /\ PolyIdle
    /\ RestIdle

\* faulty variant: write_route forgets to count the route
CountAfterWriteStuck(n) == n

\* what the count becomes after one more route
CountAfterWrite(n) == n + 1

\* write_route, Ok: the record goes into the BufWriter, which may spill to
\* the file (it does when its capacity is exceeded); the count is incremented
WriteRouteOk(route, spill) ==
    /\ wstate = "open"
    /\ Len(written) < MaxRoutes
    /\ LET pending == buf \o EncodeRoute(route) IN
          IF spill
          THEN /\ disk' = Flushed(disk, wpos, pending)
               /\ wpos' = wpos + Len(pending)
               /\ buf' = <<>>
          ELSE /\ buf' = pending
               /\ UNCHANGED <<disk, wpos>>
    /\ header' = [header EXCEPT
                    !.number_of_routes = CountAfterWrite(header.number_of_routes)]
    /\ written' = Append(written, route)
    /\ UNCHANGED <<wstate, torn>>

\* write_route, Ok, called on its own
WriteRoute(route, spill) ==
    /\ WriteRouteOk(route, spill)
    /\ UNCHANGED <<readerVars, notFile>>

\* write_route, Err: serialize_into failed after n fields of the record had
\* been handed to the BufWriter; the count is not incremented.  (The run is
\* cut after the first failure that leaves part of a record.)
WriteRouteErr(route, n) ==
    /\ wstate = "open"
    /\ Len(written) < MaxRoutes
    /\ ~torn
    /\ n < Len(EncodeRoute(route))
    /\ buf' = buf \o SubSeq(EncodeRoute(route), 1, n)
    /\ torn' = (n > 0)
    /\ UNCHANGED <<wstate, header, wpos, disk, written>>

\* write_route, Err, called on its own
WriteRouteFail(route, n) ==
    /\ WriteRouteErr(route, n)
    /\ UNCHANGED <<readerVars, notFile>>

\* faulty variant: finish writes a header with a longer scenario
FinishHeaderRenamed(h) == [h EXCEPT !.scenario = h.scenario \o <<7>>]

\* the header finish writes
FinishHeader(h) == h

\* finish: seek(Start(0)) flushes the BufWriter and moves the cursor to the
\* start; the header is serialized again and flushed
FinishOk ==
    /\ wstate = "open"
    /\ disk' = Flushed(Flushed(disk, wpos, buf), 1, EncodeHeader(FinishHeader(header)))
    /\ wpos' = 1 + Len(EncodeHeader(FinishHeader(header)))
    /\ buf' = <<>>
    /\ wstate' = "finished"
    /\ UNCHANGED <<header, written, torn>>

\* finish, called on its own
Finish ==
    /\ FinishOk
    /\ UNCHANGED <<readerVars, notFile>>

\* the writer goes out of scope without finish: BufWriter's Drop flushes
DropOfWriter ==
    /\ wstate = "open"
    /\ disk' = Flushed(disk, wpos, buf)
    /\ wpos' = wpos + Len(buf)
    /\ buf' = <<>>
    /\ wstate' = "dropped"
    /\ UNCHANGED <<header, written, torn>>

\* the drop of a writer, on its own
DropWriter ==
    /\ DropOfWriter
    /\ UNCHANGED <<readerVars, notFile>>

----------------------------------------------------------------------------
(* RouteCollectionReader *)

\* whether RouteCollectionReader::new accepts a decoded header
AcceptsHeader(h) == TRUE

\* RouteCollectionReader::new on a file with content f
ReaderNew(f) ==
    /\ rstate = "closed"
    /\ LET h == DecodeHeader(f, 1) IN
          /\ rstate' = IF h.ok /\ AcceptsHeader(h.value) THEN "open" ELSE "failed"
          /\ rheader' = h.value
          /\ rpos' = h.next
    /\ rfile' = f
    /\ route_index' = 0
    /\ UNCHANGED <<items, sawNone>>
    /\ UNCHANGED <<routeVars, notFile>>

\* faulty variant: > in place of >=
AtEndOffByOne(index, h) == index > h.number_of_routes

\* whether next() returns None
AtEnd(index, h) == index >= h.number_of_routes

\* faulty variant: only a decoded route is counted
IndexAfterItemOkOnly(index, ok) == IF ok THEN index + 1 ELSE index

\* self.route_index += 1, before the record is decoded (ok: whether it will)
IndexAfterItem(index, ok) == index + 1

\* Iterator::next
ReaderNext ==
    /\ rstate = "open"
    /\ IF AtEnd(route_index, rheader)
       THEN /\ sawNone' = TRUE
            /\ UNCHANGED <<rpos, route_index, items>>
       ELSE LET r == DecodeRoute(rfile, rpos) IN
            /\ route_index' = IndexAfterItem(route_index, r.ok)
            /\ rpos' = r.next
            /\ items' = Append(items, IF r.ok THEN <<"Ok", r.value>> ELSE <<"Err">>)
            /\ UNCHANGED sawNone
    /\ UNCHANGED <<rstate, rfile, rheader>>
    /\ UNCHANGED <<routeVars, notFile>>

----------------------------------------------------------------------------
(* Writer and reader of one file: the reader opens the file once the writer *)
(* is gone (finished or dropped).                                           *)

NextRoute ==
    \/ \E route \in RouteSet, spill \in BOOLEAN : WriteRoute(route, spill)
    \/ \E route \in RouteSet, n \in 0..(5 + MaxIds) : WriteRouteFail(route, n)
    \/ Finish
    \/ DropWriter
    \/ (wstate \in {"finished", "dropped"} /\ ReaderNew(disk))
    \/ ReaderNext

Spec == InitRoute /\ [][NextRoute]_vars

----------------------------------------------------------------------------
(* The reader on any file: a header that decodes followed by any tokens, or *)
(* a file that ends inside the header.                                      *)

ForeignHeaders ==
    [major_version : {MajorVersion, MajorVersion + 1},
     minor_version : {MinorVersion},
     osrm_file : StringSet,
     scenario : {<<>>},
     number_of_routes : 0..MaxCount]

ForeignBodies == UNION {[1..n -> {0, 1}] : n \in 0..MaxBody}

ForeignFiles ==
    {EncodeHeader(h) \o b : h \in ForeignHeaders, b \in ForeignBodies}
        \cup {SubSeq(EncodeHeader(h), 1, n) : h \in ForeignHeaders, n \in 0..4}

WriterIdle ==
    /\ wstate = "idle"
    /\ header = NoHeader
    /\ buf = <<>>
    /\ wpos = 1
    /\ disk = <<>>
    /\ written = <<>>
    /\ torn = FALSE

InitReader ==
    /\ WriterIdle
    /\ \E f \in ForeignFiles : ReaderClosed(f)
    /\ NetIdle
    /\ PolyIdle
    /\ RestIdle

NextReader ==
    \/ ReaderNew(rfile)
    \/ ReaderNext

SpecReader == InitReader /\ [][NextReader]_vars

----------------------------------------------------------------------------
(* Claims about the route-collection file *)

DiskHeader == DecodeHeader(disk, 1)

\* the items a reader yields for the routes rs, all decoded
OkItems(rs) == [i \in 1..Len(rs) |-> <<"Ok", rs[i]>>]

\* C1: after new, k successful write_route calls and finish, the header at
\* the start of the file decodes and its number_of_routes is k.
C1_FinishStoresCount ==
    wstate = "finished" =>
        /\ DiskHeader.ok
        /\ DiskHeader.value.number_of_routes = Len(written)

C1_Witness ==
    /\ wstate = "finished"
    /\ Len(written) = MaxRoutes
    /\ DiskHeader.value.number_of_routes = MaxRoutes

\* C2: after write_route of R1..Rk (no write having failed midway) and
\* finish, a reader of the file yields R1..Rk as Ok items, in the order
\* written, and exactly k of them before None.
C2_RoundTrip ==
    (wstate = "finished" /\ ~torn /\ rstate # "closed") =>
        /\ rstate = "open"
        /\ Len(items) <= Len(written)
        /\ items = SubSeq(OkItems(written), 1, Len(items))
        /\ sawNone => Len(items) = Len(written)

C2_Witness ==
    /\ wstate = "finished"
    /\ ~torn
    /\ rstate = "open"
    /\ sawNone
    /\ Len(written) = 2
    /\ written[1] # written[2]
    /\ Len(written[1].node_ids) # Len(written[2].node_ids)
    /\ items = OkItems(written)

\* C3: a writer that is dropped without finish, whatever it wrote, leaves a
\* file whose header has count 0, and a reader of that file yields no route.
C3_NoFinishNoRoutes ==
    wstate = "dropped" =>
        /\ DiskHeader.ok
        /\ DiskHeader.value.number_of_routes = 0
        /\ rstate # "failed"
        /\ items = <<>>

C3_Witness ==
    /\ wstate = "dropped"
    /\ Len(written) = MaxRoutes
    /\ rstate = "open"
    /\ sawNone
    /\ items = <<>>

\* C4: for a file whose header decodes, next() returns Some exactly
\* header.number_of_routes times, then None; a record that fails to decode
\* is one of those items (an Err item).
C4_ReaderYieldsCount ==
    rstate = "open" =>
        /\ Len(items) = route_index
        /\ route_index <= rheader.number_of_routes
        /\ sawNone => Len(items) = rheader.number_of_routes

C4_Witness ==
    /\ rstate = "open"
    /\ sawNone
    /\ rheader.number_of_routes = 2
    /\ Len(items) = 2
    /\ items[1][1] = "Ok"
    /\ items[2] = <<"Err">>

\* C5: RouteCollectionReader::new refuses a file whose header carries a major
\* version other than the reader's own.
C5_RefusesOtherMajor ==
    rstate = "open" => rheader.major_version = MajorVersion

\* everything handed to the BufWriter so far, in the file or still buffered
Stream == SubSeq(disk, 1, wpos - 1) \o buf

\* the serialized length of the header new wrote
InitialHeaderLen == Len(EncodeHeader(NewHeader(header.osrm_file, header.scenario)))

\* C27: from new to finish only number_of_routes changes in the header, so
\* the header finish writes is as long as the one new wrote: after finish the
\* file starts with that header and holds, behind it, everything that was
\* written behind the first header, unchanged and nothing more.
C27_FinishOverwritesHeaderOnly ==
    [][wstate = "open" =>
        /\ [header' EXCEPT !.number_of_routes = 0]
              = [header EXCEPT !.number_of_routes = 0]
        /\ Len(EncodeHeader(header')) = InitialHeaderLen
        /\ wstate' = "finished" =>
              /\ Len(disk') = Len(Stream)
              /\ SubSeq(disk', 1, InitialHeaderLen) = EncodeHeader(header)
              /\ SubSeq(disk', InitialHeaderLen + 1, Len(disk'))
                    = SubSeq(Stream, InitialHeaderLen + 1, Len(Stream))
    ]_vars

\* finish has run on a file with two records behind a header that holds two
\* strings of different lengths
C27_Witness ==
    /\ wstate = "finished"
    /\ header.osrm_file # header.scenario
    /\ header.number_of_routes = 2
    /\ Len(disk) > InitialHeaderLen + Len(EncodeRoute(written[1]))
    /\ SubSeq(disk, InitialHeaderLen + 1,
              InitialHeaderLen + Len(EncodeRoute(written[1])))
          = EncodeRoute(written[1])

----------------------------------------------------------------------------
(* Network::from_path.  The file is a sequence of entries; a Nodes entry    *)
(* holds nodes, an Edges entry holds edges, any other entry is skipped.     *)
(* Coordinates are left out: no operation modelled here reads them.         *)

\* OSM ids of the nodes of a file.  Ids are opaque, so a file's nodes are
\* numbered in the order of first appearance.
OsmIdSet == {1, 2, 3}

\* node indices an edge of a file may carry; a file has up to that many nodes
NodeIdSet == {0, 1, 2}

\* node sequences handed to bump_edges: ids of the file, and 9, an id no
\* file has
BumpSeqs == UNION {[1..n -> OsmIdSet \cup {9}] : n \in 0..3}

\* edge ids of a file; a file has up to that many edges
EdgeIdSet == {0, 1}

InitNet ==
    /\ phase = "loading"
    /\ nodes_vec = <<>>
    /\ edges_vec = <<>>
    /\ edges_map = EmptyMap
    /\ osm_2_node_id = EmptyMap
    /\ entry = "none"
    /\ edge_index = 0
    /\ bump_arg = <<>>
    /\ lookup_fails = 0
    /\ WriterIdle
    /\ ReaderClosed(<<>>)
    /\ PolyIdle
    /\ RestIdle

\* the index the Edges arm starts counting from
FirstEdgeIndex(stored) == 0

\* for entry in reader.entries(): the next entry of the file
NextEntry(kind) ==
    /\ phase = "loading"
    /\ entry' = kind
    /\ edge_index' = IF kind = "edges" THEN FirstEdgeIndex(Len(edges_vec)) ELSE 0
    /\ UNCHANGED <<phase, nodes_vec, edges_vec, edges_map, osm_2_node_id,
                   bump_arg, lookup_fails,
                   notNet>>

\* for n in nodes
ReadNode(osm) ==
    /\ phase = "loading"
    /\ entry = "nodes"
    /\ Len(nodes_vec) < Cardinality(NodeIdSet)
    /\ \A o \in OsmIdSet : o < osm => o \in DOMAIN osm_2_node_id
    /\ osm_2_node_id' = MapInsert(osm_2_node_id, osm, Len(nodes_vec))
    /\ nodes_vec' = Append(nodes_vec, [osm_node_id |-> osm])
    /\ UNCHANGED <<phase, edges_vec, edges_map, entry, edge_index, bump_arg,
                   lookup_fails,
                   notNet>>

\* for e in edges
ReadEdge(source_id, target_id) ==
    /\ phase = "loading"
    /\ entry = "edges"
    /\ Len(edges_vec) < Cardinality(EdgeIdSet)
    /\ edges_map' = MapInsert(edges_map, <<source_id, target_id>>, edge_index)
    /\ edges_vec' = Append(edges_vec,
                           [source_node_id |-> source_id,
                            target_node_id |-> target_id,
                            number |-> 0])
    /\ edge_index' = edge_index + 1
    /\ UNCHANGED <<phase, nodes_vec, osm_2_node_id, entry, bump_arg,
                   lookup_fails,
                   notNet>>

\* the entries are exhausted: Ok(Network {..})
EndOfFile ==
    /\ phase = "loading"
    /\ phase' = "loaded"
    /\ entry' = "none"
    /\ edge_index' = 0
    /\ UNCHANGED <<nodes_vec, edges_vec, edges_map, osm_2_node_id, bump_arg,
                   lookup_fails,
                   notNet>>

----------------------------------------------------------------------------
(* Network::bump_edges *)

\* HashMap::get as an Option: <<v>> or <<>>
MapGet(m, k) == IF k \in DOMAIN m THEN <<m[k]>> ELSE <<>>

\* faulty variant: a counter one bit wide, which wraps from 1 to 0
NumberAfterBumpWrapped(n) == (n + 1) % 2

\* number += 1
NumberAfterBump(n) == n + 1

\* self.edges_vec[edge_index.0 as usize].number += 1
BumpEdge(ev, edge_id) ==
    [ev EXCEPT ![edge_id + 1].number = NumberAfterBump(@)]

\* the edge a window (u, v) bumps, as an Option: (a, b) first, then (b, a)
FindEdge(u, v) ==
    LET a_id == MapGet(osm_2_node_id, u)
        b_id == MapGet(osm_2_node_id, v)
    IN  IF a_id = <<>> \/ b_id = <<>>
        THEN <<>>
        ELSE IF MapGet(edges_map, <<a_id[1], b_id[1]>>) # <<>>
             THEN MapGet(edges_map, <<a_id[1], b_id[1]>>)
             ELSE MapGet(edges_map, <<b_id[1], a_id[1]>>)

\* whether the window prints "lookup fail": both ids known, no edge found
PrintsLookupFail(u, v) ==
    /\ MapGet(osm_2_node_id, u) # <<>>
    /\ MapGet(osm_2_node_id, v) # <<>>
    /\ FindEdge(u, v) = <<>>

\* faulty variant: the loop ends at the first window without an edge
RECURSIVE BumpWindowsUntilUnknown(_, _, _)
BumpWindowsUntilUnknown(ev, nodes, i) ==
    IF i + 1 > Len(nodes) \/ FindEdge(nodes[i], nodes[i + 1]) = <<>>
    THEN ev
    ELSE BumpWindowsUntilUnknown(BumpEdge(ev, FindEdge(nodes[i], nodes[i + 1])[1]),
                                 nodes, i + 1)

\* for win in nodes.windows(2), from window i on
RECURSIVE BumpWindows(_, _, _)
BumpWindows(ev, nodes, i) ==
    IF i + 1 > Len(nodes)
    THEN ev
    ELSE LET e == FindEdge(nodes[i], nodes[i + 1]) IN
         BumpWindows(IF e = <<>> THEN ev ELSE BumpEdge(ev, e[1]), nodes, i + 1)

LookupFails(nodes) ==
    Cardinality({i \in 1..(Len(nodes) - 1) : PrintsLookupFail(nodes[i], nodes[i + 1])})

\* a caller hands nodes to bump_edges
BumpCall(nodes) ==
    /\ phase = "loaded"
    /\ bump_arg = <<>>
    /\ \A i \in 1..Len(edges_vec) :
          BumpWindows(edges_vec, nodes, 1)[i].number <= MaxNumber
    /\ bump_arg' = <<nodes>>
    /\ UNCHANGED <<phase, nodes_vec, edges_vec, edges_map, osm_2_node_id, entry,
                   edge_index, lookup_fails,
                   notNet>>

\* bump_edges(nodes), the whole loop
BumpEdges ==
    /\ phase = "loaded"
    /\ bump_arg # <<>>
    /\ edges_vec' = BumpWindows(edges_vec, bump_arg[1], 1)
    /\ lookup_fails' = LookupFails(bump_arg[1])
    /\ bump_arg' = <<>>
    /\ UNCHANGED <<phase, nodes_vec, edges_map, osm_2_node_id, entry, edge_index,
                   notNet>>

NextNet ==
    \/ \E kind \in {"nodes", "edges", "other"} : NextEntry(kind)
    \/ \E osm \in OsmIdSet : ReadNode(osm)
    \/ \E source_id \in NodeIdSet, target_id \in NodeIdSet :
          ReadEdge(source_id, target_id)
    \/ EndOfFile
    \/ \E nodes \in BumpSeqs : BumpCall(nodes)
    \/ BumpEdges

SpecNet == InitNet /\ [][NextNet]_vars

----------------------------------------------------------------------------
(* Claims about bump_edges *)

\* the stored edges (1-based positions) from node a to node b
EdgesFrom(a, b) ==
    {i \in 1..Len(edges_vec) :
        edges_vec[i].source_node_id = a /\ edges_vec[i].target_node_id = b}

\* the stored edges the pair (u, v) of OSM ids stands for: those from u to v
\* if there are any, otherwise those from v to u; none if an id is unknown
EdgesOfPair(u, v) ==
    IF u \in DOMAIN osm_2_node_id /\ v \in DOMAIN osm_2_node_id
    THEN IF EdgesFrom(osm_2_node_id[u], osm_2_node_id[v]) # {}
         THEN EdgesFrom(osm_2_node_id[u], osm_2_node_id[v])
         ELSE EdgesFrom(osm_2_node_id[v], osm_2_node_id[u])
    ELSE {}

Windows(nodes) == 1..(Len(nodes) - 1)

KnownWindows(nodes) ==
    {j \in Windows(nodes) : EdgesOfPair(nodes[j], nodes[j + 1]) # {}}

RECURSIVE SumNumbers(_, _)
SumNumbers(ev, i) == IF i = 0 THEN 0 ELSE ev[i].number + SumNumbers(ev, i - 1)

\* a step that is one whole bump_edges call
BumpStep == bump_arg # <<>> /\ bump_arg' = <<>>

\* every value of the edge map is the position of a stored edge
EdgeIdsInRange ==
    \A k \in DOMAIN edges_map : edges_map[k] < Len(edges_vec)

\* C6: bump_edges(seq) increments, for each consecutive pair (u, v) that has
\* an edge in either orientation, exactly one counter by one: that of an edge
\* from u to v if there is one, otherwise that of an edge from v to u.
C6_BumpsTheEdgeOfEachPair ==
    [][BumpStep =>
        \E pick \in [Windows(bump_arg[1]) -> 0..Len(edges_vec)] :
            /\ \A j \in Windows(bump_arg[1]) :
                  IF j \in KnownWindows(bump_arg[1])
                  THEN pick[j] \in EdgesOfPair(bump_arg[1][j], bump_arg[1][j + 1])
                  ELSE pick[j] = 0
            /\ Len(edges_vec') = Len(edges_vec)
            /\ \A i \in 1..Len(edges_vec) :
                  edges_vec'[i].number = edges_vec[i].number
                      + Cardinality({j \in Windows(bump_arg[1]) : pick[j] = i})
    ]_vars

\* C7: a pair with an unknown OSM id, or with no edge in either orientation,
\* changes no counter; the call does not fail and goes on with the pairs that
\* follow: the counters grow by one per known pair, and by nothing else.
C7_UnknownPairsIgnored ==
    [][BumpStep =>
        /\ EdgeIdsInRange
        /\ Len(edges_vec') = Len(edges_vec)
        /\ \A i \in 1..Len(edges_vec) : edges_vec'[i].number >= edges_vec[i].number
        /\ SumNumbers(edges_vec', Len(edges_vec'))
              = SumNumbers(edges_vec, Len(edges_vec))
                  + Cardinality(KnownWindows(bump_arg[1]))
        /\ KnownWindows(bump_arg[1]) = {} => edges_vec' = edges_vec
    ]_vars

\* the latest call met a pair without an edge and still bumped another pair
C7_Witness ==
    /\ phase = "loaded"
    /\ bump_arg = <<>>
    /\ lookup_fails = 1
    /\ SumNumbers(edges_vec, Len(edges_vec)) = 1

\* C8: once the network is loaded, no step changes the node list, the number
\* of edges, an edge's source or target or either lookup map, and no edge
\* counter decreases.
C8_OnlyCountersGrow ==
    [][phase = "loaded" =>
        /\ nodes_vec' = nodes_vec
        /\ edges_map' = edges_map
        /\ osm_2_node_id' = osm_2_node_id
        /\ Len(edges_vec') = Len(edges_vec)
        /\ \A i \in 1..Len(edges_vec) :
              /\ edges_vec'[i].source_node_id = edges_vec[i].source_node_id
              /\ edges_vec'[i].target_node_id = edges_vec[i].target_node_id
              /\ edges_vec'[i].number >= edges_vec[i].number
    ]_vars

\* two edges, one bumped twice and one bumped once
C8_Witness ==
    /\ phase = "loaded"
    /\ bump_arg = <<>>
    /\ Len(edges_vec) = 2
    /\ edges_vec[1].number = 2
    /\ edges_vec[2].number = 1

----------------------------------------------------------------------------
(* Claims about the loaded network *)

\* C24: once the network is loaded, the source and the target of every stored
\* edge are indices of loaded nodes, so that edges() can index nodes_vec.
C24_EdgeEndsAreNodes ==
    phase = "loaded" =>
        \A i \in 1..Len(edges_vec) :
            /\ edges_vec[i].source_node_id < Len(nodes_vec)
            /\ edges_vec[i].target_node_id < Len(nodes_vec)

\* C25: once the network is loaded, the map from OSM ids to node indices is
\* one-to-one: the index of every node of the list is what the map gives for
\* that node's OSM id, and no two OSM ids have the same index.
C25_OsmIdsOneToOne ==
    phase = "loaded" =>
        /\ \A i \in 1..Len(nodes_vec) :
              /\ nodes_vec[i].osm_node_id \in DOMAIN osm_2_node_id
              /\ osm_2_node_id[nodes_vec[i].osm_node_id] = i - 1
        /\ \A o1, o2 \in DOMAIN osm_2_node_id :
              osm_2_node_id[o1] = osm_2_node_id[o2] => o1 = o2

\* C28: once the network is loaded, the edge the map gives for a key (s, t)
\* is a stored edge from s to t.
C28_EdgeMapMatchesStorage ==
    phase = "loaded" =>
        \A k \in DOMAIN edges_map :
            /\ edges_map[k] < Len(edges_vec)
            /\ edges_vec[edges_map[k] + 1].source_node_id = k[1]
            /\ edges_vec[edges_map[k] + 1].target_node_id = k[2]

----------------------------------------------------------------------------
(* PolylineCollection::new.  Points are left out: a PolyPoint is its id.    *)

\* Network::edges, as the pairs FullEdge::osm_ids gives
FullEdges ==
    [i \in 1..Len(edges_vec) |->
        <<nodes_vec[edges_vec[i].source_node_id + 1].osm_node_id,
          nodes_vec[edges_vec[i].target_node_id + 1].osm_node_id>>]

\* Vec::push on the entry of key k, which is created when absent
PushNeighbor(adja, k, n) ==
    MapInsert(adja, k, IF k \in DOMAIN adja THEN Append(adja[k], n) ELSE <<n>>)

\* faulty variant: the second entry gets its own key pushed
AdjaAfterEdgeSameEnd(adja, e) ==
    PushNeighbor(PushNeighbor(adja, e[1], e[2]), e[2], e[2])

\* one turn of the loop that builds adja, for the edge e
AdjaAfterEdge(adja, e) == PushNeighbor(PushNeighbor(adja, e[1], e[2]), e[2], e[1])

RECURSIVE AdjaOf(_, _)
AdjaOf(edges, n) ==
    IF n = 0 THEN EmptyMap ELSE AdjaAfterEdge(AdjaOf(edges, n - 1), edges[n])

\* adja: OsmNodeId -> the neighbours, one per end of an edge at the node
Adja == AdjaOf(FullEdges, Len(FullEdges))

\* faulty variant: the reversed edge is not looked for
FirstSegmentSeenOneWay(s, first_id, second_id) == <<first_id, second_id>> \in s

\* seen.contains(&(first_id, second_id)) || seen.contains(&(second_id, first_id))
FirstSegmentSeen(s, first_id, second_id) ==
    <<first_id, second_id>> \in s \/ <<second_id, first_id>> \in s

\* "Get next node": the neighbour of a node with the neighbours v to go on
\* to, having come from prev_id
NextNode(v, prev_id) == IF v[1] = prev_id THEN v[2] ELSE v[1]

\* faulty variant: the walk stops after its first segment
StopsAlways(adja, set, cur_id) == TRUE

\* the two tests that end the loop of follow: the line ends or reaches an
\* intersection, or it reached a loop
Stops(adja, set, cur_id) == Len(adja[cur_id]) # 2 \/ cur_id \in set

\* faulty variant: the first node is not put into the set
InitialSetEmpty(first_id) == {}

\* let mut set = HashSet::new(); set.insert(first_id)
InitialSet(first_id) == {first_id}

\* the loop of follow; pc is the poly_collection with seen, poly the polyline
\* under construction, set the ids it holds
RECURSIVE FollowLoop(_, _, _, _, _, _, _)
FollowLoop(adja, pc, poly, set, prev_id, cur_id, poly_id) ==
    LET points == Append(poly, cur_id)
        marked == [pc EXCEPT
                     !.membership = MapInsert(@, <<prev_id, cur_id>>, poly_id),
                     !.seen = @ \cup {<<prev_id, cur_id>>}]
    IN  IF Stops(adja, set, cur_id)
        THEN [marked EXCEPT !.polylines = Append(@, points)]
        ELSE FollowLoop(adja, marked, points, set \cup {cur_id}, cur_id,
                        NextNode(adja[cur_id], prev_id), poly_id)

\* follow(first_point, first_id, second_id)
Follow(adja, pc, first_id, second_id) ==
    IF FirstSegmentSeen(pc.seen, first_id, second_id)
    THEN pc
    ELSE FollowLoop(adja,
                    [pc EXCEPT
                       !.seen = @ \cup {<<first_id, second_id>>},
                       !.membership =
                           MapInsert(@, <<first_id, second_id>>, Len(pc.polylines))],
                    <<first_id>>, InitialSet(first_id), first_id, second_id,
                    Len(pc.polylines))

\* for next_id in v { follow(*point, *id, *next_id) }, from position i of v
RECURSIVE FollowAll(_, _, _, _)
FollowAll(adja, pc, id, i) ==
    IF i > Len(adja[id])
    THEN pc
    ELSE FollowAll(adja, Follow(adja, pc, id, adja[id][i]), id, i + 1)

Collection == [polylines |-> polylines, membership |-> membership, seen |-> seen]

\* one turn of the first loop that passes its test: a key of adja that has
\* not two neighbours.  A HashMap is iterated in an arbitrary order.
StartFromEnd(id) ==
    /\ pstate = "building"
    /\ id \in todo1
    /\ LET pc == FollowAll(Adja, Collection, id, 1) IN
          /\ polylines' = pc.polylines
          /\ membership' = pc.membership
          /\ seen' = pc.seen
    /\ todo1' = todo1 \ {id}
    /\ pstate' = IF todo1' = {} /\ todo2 = {} THEN "done" ELSE "building"
    /\ UNCHANGED <<todo2, notPoly>>

\* one turn of the second loop that passes its test: a key of adja that has
\* two neighbours
StartFromMiddle(id) ==
    /\ pstate = "building"
    /\ todo1 = {}
    /\ id \in todo2
    /\ LET pc == Follow(Adja, Follow(Adja, Collection, id, Adja[id][1]),
                        id, Adja[id][2])
       IN /\ polylines' = pc.polylines
          /\ membership' = pc.membership
          /\ seen' = pc.seen
    /\ todo2' = todo2 \ {id}
    /\ pstate' = IF todo2' = {} THEN "done" ELSE "building"
    /\ UNCHANGED <<todo1, notPoly>>

\* lookup_edge, as an Option
lookup_edge(edge) ==
    IF MapGet(membership, edge) # <<>>
    THEN MapGet(membership, edge)
    ELSE MapGet(membership, <<edge[2], edge[1]>>)

(* The networks split into polylines: four nodes with the OSM ids 1..4 and  *)
(* up to MaxPolyEdges edges between any of them (self-loops, parallel and   *)
(* antiparallel edges included), as read from a file with one Nodes and one *)
(* Edges entry.  Ids are opaque: the nodes are numbered in the order in     *)
(* which the edge list mentions them.                                       *)

PolyNodeIdSet == {0, 1, 2, 3}

Flat(edges) == [k \in 1..(2 * Len(edges)) |-> edges[(k + 1) \div 2][2 - (k % 2)]]

InOrderOfAppearance(edges) ==
    \A k \in 1..(2 * Len(edges)) :
        \/ Flat(edges)[k] = 0
        \/ \E j \in 1..(k - 1) : Flat(edges)[j] = Flat(edges)[k] - 1

\* the lists of n edges whose node indices are in order of appearance
RECURSIVE PolyEdgeListsOf(_)
PolyEdgeListsOf(n) ==
    IF n = 0
    THEN {<<>>}
    ELSE {edges \in {Append(shorter, e) : shorter \in PolyEdgeListsOf(n - 1),
                                          e \in PolyNodeIdSet \X PolyNodeIdSet} :
             InOrderOfAppearance(edges)}

PolyEdgeLists == UNION {PolyEdgeListsOf(n) : n \in 0..MaxPolyEdges}

\* the edge map from_path builds from one Edges entry
EdgeMapOf(edges) ==
    [k \in {edges[i] : i \in 1..Len(edges)} |->
        CHOOSE e \in 0..(Len(edges) - 1) :
            /\ edges[e + 1] = k
            /\ \A j \in (e + 2)..Len(edges) : edges[j] # k]

InitPoly ==
    /\ phase = "loaded"
    /\ nodes_vec = [i \in 1..Cardinality(PolyNodeIdSet) |-> [osm_node_id |-> i]]
    /\ osm_2_node_id = [o \in 1..Cardinality(PolyNodeIdSet) |-> o - 1]
    /\ \E edges \in PolyEdgeLists :
          /\ edges_vec = [i \in 1..Len(edges) |->
                            [source_node_id |-> edges[i][1],
                             target_node_id |-> edges[i][2],
                             number |-> 0]]
          /\ edges_map = EdgeMapOf(edges)
    /\ entry = "none"
    /\ edge_index = 0
    /\ bump_arg = <<>>
    /\ lookup_fails = 0
    /\ polylines = <<>>
    /\ membership = EmptyMap
    /\ seen = {}
    /\ todo1 = {id \in DOMAIN Adja : Len(Adja[id]) # 2}
    /\ todo2 = {id \in DOMAIN Adja : Len(Adja[id]) = 2}
    /\ pstate = IF todo1 = {} /\ todo2 = {} THEN "done" ELSE "building"
    /\ WriterIdle
    /\ ReaderClosed(<<>>)
    /\ RestIdle

NextPoly ==
    \/ \E id \in todo1 : StartFromEnd(id)
    \/ \E id \in todo2 : StartFromMiddle(id)

SpecPoly == InitPoly /\ [][NextPoly]_vars

----------------------------------------------------------------------------
(* Claims about the polylines *)

EdgePairs == {FullEdges[i] : i \in 1..Len(FullEdges)}

\* whether x and y are joined by an edge of the network, in either orientation
IsEdge(x, y) == <<x, y>> \in EdgePairs \/ <<y, x>> \in EdgePairs

\* whether x and y are consecutive points of polyline p (1-based), either way
Consecutive(p, x, y) ==
    \E k \in 1..(Len(polylines[p]) - 1) :
        \/ polylines[p][k] = x /\ polylines[p][k + 1] = y
        \/ polylines[p][k] = y /\ polylines[p][k + 1] = x

PolylinesWith(x, y) == {p \in 1..Len(polylines) : Consecutive(p, x, y)}

OsmIdsOfNodes == {nodes_vec[i].osm_node_id : i \in 1..Len(nodes_vec)}

\* C9: after PolylineCollection::new, the two ends of every edge of the
\* network are consecutive points of exactly one polyline, lookup_edge gives
\* the id of that polyline for the edge in both orientations, and gives none
\* for a pair that is no edge in either orientation.
C9_EachEdgeInOnePolyline ==
    pstate = "done" =>
        /\ \A e \in EdgePairs :
              /\ Cardinality(PolylinesWith(e[1], e[2])) = 1
              /\ \A p \in PolylinesWith(e[1], e[2]) :
                    /\ lookup_edge(e) = <<p - 1>>
                    /\ lookup_edge(<<e[2], e[1]>>) = <<p - 1>>
        /\ \A x \in OsmIdsOfNodes, y \in OsmIdsOfNodes :
              ~IsEdge(x, y) => lookup_edge(<<x, y>>) = <<>>

\* an intersection with three arms, one of them through a node of degree two
C9_Witness ==
    /\ pstate = "done"
    /\ Len(edges_vec) = 4
    /\ Len(polylines) = 3
    /\ \E p \in 1..Len(polylines) : Len(polylines[p]) = 3
    /\ \E e \in EdgePairs :
          /\ <<e[2], e[1]>> \notin DOMAIN membership
          /\ lookup_edge(<<e[2], e[1]>>) # <<>>

\* C10: every polyline has at least two points, and every two consecutive
\* points of a polyline are joined by an edge of the network, in one of the
\* two orientations.
C10_PolylinesFollowEdges ==
    \A p \in 1..Len(polylines) :
        /\ Len(polylines[p]) >= 2
        /\ \A k \in 1..(Len(polylines[p]) - 1) :
              IsEdge(polylines[p][k], polylines[p][k + 1])

\* a cycle of three nodes of degree two, closed into one polyline, and an
\* edge apart from it
C10_Witness ==
    /\ pstate = "done"
    /\ Len(polylines) = 2
    /\ \E p \in 1..Len(polylines) :
          /\ Len(polylines[p]) = 4
          /\ polylines[p][1] = polylines[p][4]
          /\ polylines[p][1] # polylines[p][3]

----------------------------------------------------------------------------
(* The density index: DensityClusters (density.rs) and Weighted            *)
(* (sampling.rs), which share the code of from_csv and of the lookup.      *)
(* A Point3035 is <<x, y>> in metres, a Point4326 is [lat, lon]; an Option *)
(* is <<>> or <<v>>.                                                       *)

\* the x, y and weight columns of the rows a CSV file may hold
XSet == {0, 2}
YSet == {0, 1}
WeightSet == {0, 3}

\* a data row: three fields that parse, or a row with a field that does not
CsvRows ==
    [kind : {"ok"}, x : XSet, y : YSet, weight : WeightSet]
        \cup {[kind |-> "bad", x |-> 0, y |-> 0, weight |-> 0]}

CsvFiles == UNION {[1..n -> CsvRows] : n \in 0..MaxRows}

\* laea::backward and laea::forward: the projection has its origin at
\* 52 N, 10 E; the two are inverses of each other on the points of the grid
backward(p) == [lat |-> p[2] + 52, lon |-> p[1] + 10]
forward(q) == <<q.lon - 10, q.lat - 52>>

\* BoundingBox::is_inside
is_inside(b, point) ==
    /\ point.lat >= b.sw.lat
    /\ point.lon >= b.sw.lon
    /\ point.lat <= b.ne.lat
    /\ point.lon <= b.ne.lon

\* the --bounds option: none, or a box that holds the points with x = 0
BoundsSet ==
    {<<>>, <<[sw |-> backward(<<0, 0>>), ne |-> backward(<<0, 1>>)]>>}

\* the --max-dist option, and the radius of a lookup
RadiusSet == {0, 1, 2}

\* the points a lookup may start from: those of the grid and two far away
SourceSet == {backward(<<x, y>>) : x \in XSet \cup {5}, y \in YSet}

RECURSIVE SumWeights(_, _)
SumWeights(ws, i) == IF i = 0 THEN 0 ELSE ws[i] + SumWeights(ws, i - 1)

\* WeightedIndex::new(ws): Err(NoItem) without weights, Err(AllWeightsZero)
\* when they sum to zero
WeightedIndexNew(ws) ==
    IF Len(ws) = 0 THEN "NoItem"
    ELSE IF SumWeights(ws, Len(ws)) = 0 THEN "AllWeightsZero"
    ELSE "Ok"

\* the positions (1-based) WeightedIndex::sample may return: a position is
\* drawn with a probability proportional to its weight
WeightedIndexSample(ws) == {i \in 1..Len(ws) : ws[i] > 0}

\* squared_euclidean
squared_euclidean(a, b) ==
    (a[1] - b[1]) * (a[1] - b[1]) + (a[2] - b[2]) * (a[2] - b[2])

\* faulty variant: the radius is handed over as it is
RadiusNotSquared(r) == r

\* within_radius.powi(2)
RadiusSquared(r) == r * r

\* kdtree.within(p, r2, &squared_euclidean): the entries (1-based positions
\* in points and weights) at a squared distance of at most r2
Within(p, r2) ==
    SelectSeq([i \in 1..Len(dkdtree) |-> i],
              LAMBDA i : squared_euclidean(dkdtree[i], p) <= r2)

\* the rows from_csv keeps
KeptRows(rows, bounds) ==
    SelectSeq(rows, LAMBDA r :
        bounds = <<>> \/ is_inside(bounds[1], backward(<<r.x, r.y>>)))

\* from_csv(path, bounds[, max_dist]): Err at the first row that does not
\* parse; the index is built by WeightedIndex::new(&weights).unwrap()
FromCsv(kind, rows, bounds, max) ==
    /\ dstate = "none"
    /\ LET kept == KeptRows(rows, bounds)
           ws == [i \in 1..Len(kept) |-> kept[i].weight]
       IN  IF \E i \in 1..Len(rows) : rows[i].kind = "bad"
           THEN /\ dstate' = "err"
                /\ UNCHANGED <<dpoints, dweights, dkdtree>>
           ELSE IF WeightedIndexNew(ws) # "Ok"
           THEN /\ dstate' = "panic"
                /\ UNCHANGED <<dpoints, dweights, dkdtree>>
           ELSE /\ dstate' = "built"
                /\ dpoints' = [i \in 1..Len(kept) |->
                                  backward(<<kept[i].x, kept[i].y>>)]
                /\ dweights' = ws
                /\ dkdtree' = [i \in 1..Len(kept) |-> <<kept[i].x, kept[i].y>>]
    /\ dkind' = kind
    /\ dmax_dist' = max
    /\ UNCHANGED <<dcall, dresult, notDens>>

\* DensityClusters::sample_point and Weighted::gen_source
SamplePoint ==
    /\ dstate = "built"
    /\ \E i \in WeightedIndexSample(dweights) :
          dresult' = <<"Some", dpoints[i]>>
    /\ dcall' = <<>>
    /\ UNCHANGED <<dstate, dkind, dpoints, dweights, dkdtree, dmax_dist,
                   notDens>>

\* DensityClusters::sample_point_within(rng, from, within_radius)
SamplePointWithin(from, within_radius) ==
    /\ dstate = "built"
    /\ dkind = "clusters"
    /\ LET indices == Within(forward(from), RadiusSquared(within_radius))
           ws == [k \in 1..Len(indices) |-> dweights[indices[k]]]
       IN  IF WeightedIndexNew(ws) = "Ok"
           THEN \E k \in WeightedIndexSample(ws) :
                   dresult' = <<"Some", dpoints[indices[k]]>>
           ELSE dresult' = <<"None">>
    /\ dcall' = <<from, within_radius>>
    /\ UNCHANGED <<dstate, dkind, dpoints, dweights, dkdtree, dmax_dist,
                   notDens>>

\* Weighted::gen_destination(source): WeightedIndex::new(..).unwrap()
GenDestination(source) ==
    /\ dstate = "built"
    /\ dkind = "weighted"
    /\ LET indices == Within(forward(source), RadiusSquared(dmax_dist))
           ws == [k \in 1..Len(indices) |-> dweights[indices[k]]]
       IN  IF WeightedIndexNew(ws) = "Ok"
           THEN /\ \E k \in WeightedIndexSample(ws) :
                      dresult' = <<"Some", dpoints[indices[k]]>>
                /\ dstate' = dstate
           ELSE /\ dresult' = <<"panic">>
                /\ dstate' = "panic"
    /\ dcall' = <<source, dmax_dist>>
    /\ UNCHANGED <<dkind, dpoints, dweights, dkdtree, dmax_dist, notDens>>

InitDensity ==
    /\ DensIdle
    /\ PipeIdle
    /\ OrientIdle
    /\ GeoIdle
    /\ WriterIdle
    /\ ReaderClosed(<<>>)
    /\ NetIdle
    /\ PolyIdle
    /\ MoreIdle

NextDensity ==
    \/ \E rows \in CsvFiles, bounds \in BoundsSet :
          FromCsv("clusters", rows, bounds, 0)
    \/ \E rows \in CsvFiles, bounds \in BoundsSet, max \in RadiusSet :
          FromCsv("weighted", rows, bounds, max)
    \/ SamplePoint
    \/ \E from \in SourceSet, within_radius \in RadiusSet :
          SamplePointWithin(from, within_radius)
    \/ \E source \in SourceSet : GenDestination(source)

SpecDensity == InitDensity /\ [][NextDensity]_vars

----------------------------------------------------------------------------
(* Claims about the density index *)

\* C11: building a density index from a CSV file with no rows, with no row
\* left by the bounding box, or with weights that are all zero gives an error
\* value back to the caller: it neither builds an index nor aborts.
C11_EmptyDistributionIsAnError ==
    [][dstate = "none" =>
        /\ dstate' # "panic"
        /\ dstate' = "built" => SumWeights(dweights', Len(dweights')) > 0
    ]_vars

\* the entries of the index within radius r of the projected point p
Near(p, r) ==
    {i \in 1..Len(dkdtree) : squared_euclidean(dkdtree[i], p) <= r * r}

\* C12: sample_point_within(from, radius) gives none when no entry of the
\* index lies within radius of the projected from, or when the weights of
\* those entries sum to zero; otherwise it gives a point of the index of
\* positive weight whose projection lies within radius of that of from.
C12_SampleWithinRadius ==
    (dstate = "built" /\ dkind = "clusters" /\ dcall # <<>>) =>
        LET p == forward(dcall[1])
            r == dcall[2]
        IN  IF \A i \in Near(p, r) : dweights[i] = 0
            THEN dresult = <<"None">>
            ELSE /\ dresult[1] = "Some"
                 /\ \E i \in 1..Len(dpoints) :
                       /\ dpoints[i] = dresult[2]
                       /\ dweights[i] > 0
                 /\ squared_euclidean(forward(dresult[2]), p) <= r * r

\* a lookup that found two entries in reach, one of them at the very radius
\* and of weight zero, and returned the other
C12_Witness ==
    /\ dstate = "built"
    /\ dkind = "clusters"
    /\ dcall # <<>>
    /\ dcall[2] = 2
    /\ Cardinality(Near(forward(dcall[1]), 2)) = 2
    /\ \E i \in Near(forward(dcall[1]), 2) :
          /\ dweights[i] = 0
          /\ squared_euclidean(dkdtree[i], forward(dcall[1])) = 4
    /\ dresult[1] = "Some"

\* a lookup with entries in reach whose weights are all zero
C12_WitnessNone ==
    /\ dstate = "built"
    /\ dkind = "clusters"
    /\ dcall # <<>>
    /\ Near(forward(dcall[1]), dcall[2]) # {}
    /\ dresult = <<"None">>

\* C13: gen_destination returns an optional point; that of Weighted returns
\* none, and does not abort, when the index has no point within max_dist of
\* the source.
C13_NoDestinationIsNone ==
    (dkind = "weighted" /\ dcall # <<>>) =>
        /\ dstate = "built"
        /\ dresult # <<"panic">>
        /\ (\A i \in Near(forward(dcall[1]), dcall[2]) : dweights[i] = 0)
              => dresult = <<"None">>

----------------------------------------------------------------------------
(* run and sample (main.rs): the sample pipeline, from the call of sample  *)
(* on.  The sampler is any implementation of Sampling, the routing engine  *)
(* any server: both answer as they like.                                   *)

\* the points a sampler returns
PipePoints == {backward(<<0, 0>>), backward(<<2, 1>>)}

\* the node lists the routing engine answers with
NodeIdLists == {<<>>, <<1, 2>>, <<3, 2, 1>>}

\* (x * 1e6) as i32: a cast to i32 saturates
AsI32(n) ==
    IF n > 2147483647 THEN 2147483647
    ELSE IF n < -2147483647 - 1 THEN -2147483647 - 1
    ELSE n

\* LatLon32::new
LatLon32New(lat, lon) == <<AsI32(lat * 1000000), AsI32(lon * 1000000)>>

\* the Route find_route builds from the engine's answer
RouteOf(a, b, node_ids) ==
    [start_coord |-> LatLon32New(a.lat, a.lon),
     end_coord |-> LatLon32New(b.lat, b.lon),
     node_ids |-> node_ids,
     distance |-> 5]

\* run has tested the connection, read the network, created the writer and
\* built the sampler, and calls sample
InitSample ==
    /\ wstate = "open"
    /\ header = NewHeader(<<7>>, <<7>>)
    /\ buf = EncodeHeader(header)
    /\ wpos = 1
    /\ disk = <<>>
    /\ written = <<>>
    /\ torn = FALSE
    /\ ReaderClosed(<<>>)
    /\ phase = "loaded"
    /\ nodes_vec = [n \in 1..3 |-> [osm_node_id |-> n]]
    /\ osm_2_node_id = [o \in 1..3 |-> o - 1]
    /\ edges_vec = <<[source_node_id |-> 0, target_node_id |-> 1, number |-> 0],
                     [source_node_id |-> 1, target_node_id |-> 2, number |-> 0]>>
    /\ edges_map = EdgeMapOf(<<<<0, 1>>, <<1, 2>>>>)
    /\ entry = "none"
    /\ edge_index = 0
    /\ bump_arg = <<>>
    /\ lookup_fails = 0
    /\ PolyIdle
    /\ MoreIdle
    /\ DensIdle
    /\ OrientIdle
    /\ GeoIdle
    /\ number_of_samples \in 0..MaxRoutes
    /\ run_opts \in SUBSET {"geojson", "png", "compare"}
    /\ run_pc = IF number_of_samples = 0 THEN "finish" ELSE "draw"
    /\ run_err = "none"
    /\ run_outputs = {}
    /\ sample_i = 0
    /\ draw_no = 0
    /\ sample_source = <<>>
    /\ sample_dest = <<>>
    /\ sample_ab = <<>>
    /\ sample_res = <<>>
    /\ routed = <<>>
    /\ bumps = 0

\* faulty variant: the source is drawn once per sample, before the loop
SourceAfterDrawKept(old, fresh, n) == IF n > 1 THEN old ELSE fresh

\* let source = sampl.gen_source(): the n-th draw for this sample
SourceAfterDraw(old, fresh, n) == fresh

\* one turn of the inner loop: gen_source, gen_destination(source), and the
\* assignment of a and b when there is a destination
Draw(src, dst) ==
    /\ run_pc = "draw"
    /\ draw_no < MaxDraws
    /\ dst = <<>> => draw_no + 1 < MaxDraws
    /\ draw_no' = draw_no + 1
    /\ sample_source' =
          SourceAfterDraw(sample_source, [point |-> src, draw |-> draw_no + 1],
                          draw_no + 1)
    /\ IF dst = <<>>
       THEN /\ sample_dest' = <<>>
            /\ sample_ab' = sample_ab
            /\ run_pc' = "draw"
       ELSE /\ sample_dest' = <<[point |-> dst[1], draw |-> draw_no + 1]>>
            /\ sample_ab' = <<sample_source', sample_dest'[1]>>
            /\ run_pc' = "route"
    /\ UNCHANGED <<run_err, run_opts, run_outputs, number_of_samples, sample_i,
                   sample_res, routed, bumps, routeVars, netVars, notPipe>>

\* faulty variant: the error is swallowed and the loop left
PcAfterFindRouteSwallowed(ok) == IF ok THEN "write" ELSE "finish"

\* machine.find_route(a, b)?
PcAfterFindRoute(ok) == IF ok THEN "write" ELSE "error"

\* let res = machine.find_route(a, b)?
FindRoute(ok, node_ids) ==
    /\ run_pc = "route"
    /\ routed' = Append(routed, [i |-> sample_i, a |-> sample_ab[1],
                                 b |-> sample_ab[2]])
    /\ run_pc' = PcAfterFindRoute(ok)
    /\ IF ok
       THEN /\ sample_res' =
                  <<RouteOf(sample_ab[1].point, sample_ab[2].point, node_ids)>>
            /\ run_err' = run_err
       ELSE /\ sample_res' = sample_res
            /\ run_err' = "find_route"
    /\ UNCHANGED <<run_opts, run_outputs, number_of_samples, sample_i, draw_no,
                   sample_source, sample_dest, sample_ab, bumps, routeVars,
                   netVars, notPipe>>

\* faulty variant: write_route gives back a route without its nodes
RouteReturnedEmpty(route) == [route EXCEPT !.node_ids = <<>>]

\* write_route: Ok(route)
RouteReturned(route) == route

\* let res = writer.write_route(res)?, Ok
SampleWriteRoute(spill) ==
    /\ run_pc = "write"
    /\ WriteRouteOk(sample_res[1], spill)
    /\ sample_res' = <<RouteReturned(sample_res[1])>>
    /\ run_pc' = "bump"
    /\ UNCHANGED <<run_err, run_opts, run_outputs, number_of_samples, sample_i,
                   draw_no, sample_source, sample_dest, sample_ab,
                   routed, bumps, netVars, notPipe>>

\* let res = writer.write_route(res)?, Err
SampleWriteRouteFail(n) ==
    /\ run_pc = "write"
    /\ WriteRouteErr(sample_res[1], n)
    /\ run_pc' = "error"
    /\ run_err' = "write_route"
    /\ UNCHANGED <<run_opts, run_outputs, number_of_samples, sample_i,
                   draw_no, sample_source, sample_dest, sample_ab, sample_res,
                   routed, bumps, netVars, notPipe>>

\* net.bump_edges(&res.node_ids), and the end of the loop body
SampleBumpEdges ==
    /\ run_pc = "bump"
    /\ edges_vec' = BumpWindows(edges_vec, sample_res[1].node_ids, 1)
    /\ lookup_fails' = LookupFails(sample_res[1].node_ids)
    /\ bumps' = bumps + 1
    /\ sample_i' = sample_i + 1
    /\ draw_no' = 0
    /\ sample_source' = <<>>
    /\ sample_dest' = <<>>
    /\ sample_ab' = <<>>
    /\ sample_res' = <<>>
    /\ run_pc' = IF sample_i + 1 < number_of_samples THEN "draw" ELSE "finish"
    /\ UNCHANGED <<run_err, run_opts, run_outputs, number_of_samples, routed,
                   netRest, routeVars, notPipe>>

\* writer.finish()?
RunFinish ==
    /\ run_pc = "finish"
    /\ FinishOk
    /\ run_outputs' = run_outputs \cup {"finish"}
    /\ run_pc' = "geojson"
    /\ UNCHANGED <<run_err, run_opts, number_of_samples, sample_i, draw_no,
                   sample_source, sample_dest, sample_ab, sample_res, routed,
                   bumps, netVars, notPipe>>

\* one of the three optional steps after finish: skipped without its option,
\* else executed, and the run goes on when it returns Ok
RunOutput(step, next, ok) ==
    /\ run_pc = step
    /\ IF step \notin run_opts
       THEN /\ ok
            /\ run_pc' = next
            /\ UNCHANGED <<run_outputs, run_err>>
       ELSE /\ run_outputs' = run_outputs \cup {step}
            /\ run_pc' = IF ok THEN next ELSE "error"
            /\ run_err' = IF ok THEN run_err ELSE step
    /\ UNCHANGED <<run_opts, number_of_samples, sample_i, draw_no,
                   sample_source, sample_dest, sample_ab, sample_res, routed,
                   bumps, routeVars, netVars, notPipe>>

\* net.write_to_geojson(geojson_path)?
WriteToGeojson(ok) == RunOutput("geojson", "png", ok)

\* net.write_png(..)?
WritePng(ok) == RunOutput("png", "compare", ok)

\* compare::compare(&net, geojson_path, number_property)?
RunCompare(ok) == RunOutput("compare", "ok", ok)

\* run returns the Err: its locals are dropped, the writer among them unless
\* finish has consumed it
RunReturnsErr ==
    /\ run_pc = "error"
    /\ IF wstate = "open" THEN DropOfWriter ELSE UNCHANGED routeVars
    /\ run_pc' = "failed"
    /\ UNCHANGED <<run_err, run_opts, run_outputs, number_of_samples, sample_i,
                   draw_no, sample_source, sample_dest, sample_ab, sample_res,
                   routed, bumps, netVars, notPipe>>

NextSample ==
    \/ \E src \in PipePoints, dst \in {<<>>} \cup {<<q>> : q \in PipePoints} :
          Draw(src, dst)
    \/ \E ok \in BOOLEAN, node_ids \in NodeIdLists : FindRoute(ok, node_ids)
    \/ \E spill \in BOOLEAN : SampleWriteRoute(spill)
    \/ \E n \in {0, 2} : SampleWriteRouteFail(n)
    \/ SampleBumpEdges
    \/ RunFinish
    \/ \E ok \in BOOLEAN : WriteToGeojson(ok)
    \/ \E ok \in BOOLEAN : WritePng(ok)
    \/ \E ok \in BOOLEAN : RunCompare(ok)
    \/ RunReturnsErr

SpecSample == InitSample /\ [][NextSample]_vars

----------------------------------------------------------------------------
(* Claims about the sample pipeline *)

\* a turn of the inner loop in which gen_destination returns none
DrawsNone == run_pc = "draw" /\ draw_no' = draw_no + 1 /\ sample_dest' = <<>>

\* a turn of the inner loop
DrawsAgain == run_pc = "draw" /\ draw_no' = draw_no + 1

\* C14: when gen_destination returns none, sample draws again, a new source
\* and a new destination, for the same sample index; find_route is called
\* with a source and a destination that come from one and the same draw, the
\* latest one; the calls of find_route are for the indices 0, 1, 2, ... in
\* turn, whatever the number of draws.
C14_RetryDrawsBothAgain ==
    [][/\ DrawsNone =>
            /\ run_pc' = "draw"
            /\ sample_i' = sample_i
            /\ routed' = routed
       /\ DrawsAgain =>
            /\ sample_source'.draw = draw_no'
            /\ sample_dest' # <<>> => sample_dest'[1].draw = draw_no'
       /\ routed' # routed =>
            /\ Len(routed') = Len(routed) + 1
            /\ routed'[Len(routed')].i = Len(routed)
            /\ routed'[Len(routed')].i = sample_i
            /\ routed'[Len(routed')].a = sample_source
            /\ routed'[Len(routed')].b = sample_dest[1]
            /\ routed'[Len(routed')].a.draw = routed'[Len(routed')].b.draw
            /\ routed'[Len(routed')].a.draw = draw_no
    ]_vars

\* the second sample was routed with the pair of its second draw, the first
\* sample with the pair of its first
C14_Witness ==
    /\ Len(routed) = 2
    /\ routed[1].a.draw = 1
    /\ routed[2].a.draw = 2
    /\ routed[2].b.draw = 2
    /\ routed[2].a.point # routed[1].a.point
    /\ run_pc = "ok"

\* C15: when find_route or write_route fails for sample i, the run ends with
\* that error: the failing step and every later step leave the edge counters
\* as they are, bump_edges has been called for the samples before i only, no
\* later sample is drawn or routed, and finish, the GeoJSON, the PNG and the
\* comparison are not executed.
C15_SampleErrorAbortsRun ==
    [][run_err' \in {"find_route", "write_route"} =>
        /\ edges_vec' = edges_vec
        /\ bumps' = sample_i'
        /\ Len(routed') = sample_i' + 1
        /\ run_err = run_err' =>
              /\ sample_i' = sample_i
              /\ draw_no' = draw_no
              /\ routed' = routed
        /\ run_outputs' = {}
        /\ wstate' # "finished"
        /\ run_pc' \in {"error", "failed"}
    ]_vars

\* write_route failed for the second sample, after the first had bumped an
\* edge; the run has ended and the writer is dropped
C15_Witness ==
    /\ run_pc = "failed"
    /\ run_err = "write_route"
    /\ sample_i = 1
    /\ number_of_samples = 2
    /\ edges_vec[1].number = 1
    /\ wstate = "dropped"
    /\ run_opts # {}

\* the edge counters after bump_edges for the first i of the routes, in order
RECURSIVE BumpedInOrder(_, _, _)
BumpedInOrder(ev, routes, i) ==
    IF i = 0 THEN ev
    ELSE BumpWindows(BumpedInOrder(ev, routes, i - 1), routes[i].node_ids, 1)

\* the edges as loaded, before any bump
Unbumped(ev) == [k \in DOMAIN ev |-> [ev[k] EXCEPT !.number = 0]]

\* the samples whose route has gone to the writer, and those bumped
SamplesWritten == IF run_pc = "bump" THEN sample_i + 1 ELSE sample_i

\* C21: each route goes to the writer before its edges are bumped, and the
\* routes are written and bumped in the order find_route returned them: with
\* i samples done the writer has counted i routes (one more while the latest
\* is written and not yet bumped), they are the routes of the first calls of
\* find_route in turn, and the edge counters are those of bump_edges applied
\* to the first i of them in order.
C21_WrittenThenBumpedInOrder ==
    run_pc # "idle" =>
        /\ Len(written) = SamplesWritten
        /\ header.number_of_routes = SamplesWritten
        /\ bumps = sample_i
        /\ edges_vec = BumpedInOrder(Unbumped(edges_vec), written, sample_i)
        /\ run_pc = "bump" => sample_res = <<written[Len(written)]>>
        /\ Len(routed) >= Len(written)
        /\ \A k \in 1..Len(written) :
              /\ written[k].start_coord =
                    LatLon32New(routed[k].a.point.lat, routed[k].a.point.lon)
              /\ written[k].end_coord =
                    LatLon32New(routed[k].b.point.lat, routed[k].b.point.lon)
        /\ run_pc = "ok" => sample_i = number_of_samples

\* two different routes were written and bumped, the second one is written
\* and the first edge counts both
C21_Witness ==
    /\ run_pc = "ok"
    /\ sample_i = 2
    /\ written[1].node_ids = <<1, 2>>
    /\ written[2].node_ids = <<3, 2, 1>>
    /\ written[1].start_coord # written[2].start_coord
    /\ edges_vec[1].number = 2
    /\ edges_vec[2].number = 1

----------------------------------------------------------------------------
(* orientation and orientation_diff (compare.rs).  An f64 is [v, neg]: its  *)
(* value, and whether it is the negative zero.  Angles are counted in       *)
(* units of pi/4, which is exact for the lines of the grid below.           *)

\* std::f64::consts::PI, in units of pi/4
PI == 4

PosZero == [v |-> 0, neg |-> FALSE]
NegZero == [v |-> 0, neg |-> TRUE]
One == [v |-> 1, neg |-> FALSE]

\* the coordinates of the lines
FloatSet == {PosZero, NegZero, One}

LineSet == [from : FloatSet \X FloatSet, to : FloatSet \X FloatSet]

\* x - y on f64: a zero difference is +0.0, except for (-0.0) - (+0.0)
FSub(x, y) ==
    [v |-> x.v - y.v,
     neg |-> x.v = 0 /\ y.v = 0 /\ x.neg /\ ~y.neg]

\* dy.atan2(dx) for dx, dy in {-1, -0.0, +0.0, 1}; atan2 of (+0.0, x) is pi
\* and of (-0.0, x) is -pi when x is negative or -0.0
Atan2(dy, dx) ==
    IF dy.v > 0
    THEN (IF dx.v > 0 THEN 1 ELSE IF dx.v = 0 THEN 2 ELSE 3)
    ELSE IF dy.v < 0
    THEN (IF dx.v > 0 THEN -1 ELSE IF dx.v = 0 THEN -2 ELSE -3)
    ELSE IF dx.v > 0 \/ (dx.v = 0 /\ ~dx.neg)
    THEN 0
    ELSE IF dy.neg THEN -PI ELSE PI

\* fn orientation
orientation(line) ==
    LET dx == FSub(line.to[1], line.from[1])
        dy == FSub(line.to[2], line.from[2])
        angle == Atan2(dy, dx)
    IN  IF angle >= 0 THEN angle ELSE angle + PI

\* f64::min
FMin(x, y) == IF x <= y THEN x ELSE y

\* faulty variant: the difference is not taken modulo pi
OrientationDiffPlain(la, lb) ==
    LET oa == orientation(la)
        ob == orientation(lb)
    IN  IF oa > ob THEN oa - ob ELSE ob - oa

\* fn orientation_diff
orientation_diff(la, lb) ==
    LET oa == orientation(la)
        ob == orientation(lb)
        orient_a == IF oa > ob THEN ob ELSE oa
        orient_b == IF oa > ob THEN oa ELSE ob
        diff_1 == orient_b - orient_a
        diff_2 == orient_a + PI - orient_b
    IN  FMin(diff_1, diff_2)

InitOrient ==
    /\ line_a \in LineSet
    /\ line_b \in LineSet
    /\ orient_out = <<>>
    /\ diff_out = <<>>
    /\ GeoIdle
    /\ DensIdle
    /\ PipeIdle
    /\ WriterIdle
    /\ ReaderClosed(<<>>)
    /\ NetIdle
    /\ PolyIdle
    /\ MoreIdle

\* orientation(&line_a)
Orientation ==
    /\ orient_out = <<>>
    /\ orient_out' = <<orientation(line_a)>>
    /\ UNCHANGED <<line_a, line_b, diff_out, geoVars, densVars, pipeVars,
                   fileVars, netVars, polyVars, moreVars>>

\* orientation_diff(&line_a, &line_b)
OrientationDiff ==
    /\ diff_out = <<>>
    /\ diff_out' = <<orientation_diff(line_a, line_b)>>
    /\ UNCHANGED <<line_a, line_b, orient_out, geoVars, densVars, pipeVars,
                   fileVars, netVars, polyVars, moreVars>>

NextOrient == Orientation \/ OrientationDiff

SpecOrient == InitOrient /\ [][NextOrient]_vars

----------------------------------------------------------------------------
(* Claims about orientation *)

\* the line with its ends exchanged
Reversed(line) == [from |-> line.to, to |-> line.from]

\* whether the ends of the line differ (-0.0 and +0.0 are the same number)
DistinctEnds(line) ==
    line.from[1].v # line.to[1].v \/ line.from[2].v # line.to[2].v

\* C16: for a segment with distinct ends, orientation lies in [0, pi) and is
\* the same for the segment and its reverse, horizontal segments that point
\* in the negative x direction included.
C16_OrientationFolded ==
    (orient_out # <<>> /\ DistinctEnds(line_a)) =>
        /\ 0 <= orient_out[1]
        /\ orient_out[1] < PI
        /\ orient_out[1] = orientation(Reversed(line_a))

\* C17: orientation_diff(a, b) = orientation_diff(b, a), the value lies in
\* [0, pi/2], and it is the same when a or b is reversed.
C17_OrientationDiffSymmetric ==
    diff_out # <<>> =>
        /\ diff_out[1] = orientation_diff(line_b, line_a)
        /\ 0 <= diff_out[1]
        /\ 2 * diff_out[1] <= PI
        /\ diff_out[1] = orientation_diff(Reversed(line_a), line_b)
        /\ diff_out[1] = orientation_diff(line_a, Reversed(line_b))

\* A' = [(1,0),(0,0)] against B = [(0,0),(0,1)]: pi/2
C17_Witness ==
    /\ line_a = [from |-> <<One, PosZero>>, to |-> <<PosZero, PosZero>>]
    /\ line_b = [from |-> <<PosZero, PosZero>>, to |-> <<PosZero, One>>]
    /\ diff_out = <<2>>

----------------------------------------------------------------------------
(* compare and geojson_to_rtree (compare.rs).  The reference file is what  *)
(* the GeoJSON parser makes of it: the kind of its top-level object and,   *)
(* for a FeatureCollection, its features, each with its geometry and with  *)
(* the value of the named property, if it has one and it is a number.      *)

\* a position of a LineString: [lon, lat], or one with a single number
PositionSet == {<<7>>, <<10, 52>>, <<12, 53>>}

GeometrySet ==
    {[type |-> "none", coordinates |-> <<>>],
     [type |-> "Point", coordinates |-> <<>>]}
        \cup {[type |-> "LineString", coordinates |-> cs] :
                cs \in UNION {[1..n -> PositionSet] : n \in 0..MaxPositions}}

\* feature.properties.get(number_property).as_f64(), as an Option
FeatureSet == [geometry : GeometrySet, number : {<<>>, <<5>>}]

DocSet ==
    {[kind |-> k, features |-> <<>>] : k \in {"invalid", "Feature", "Geometry"}}
        \cup {[kind |-> "FeatureCollection", features |-> fs] :
                fs \in UNION {[1..n -> FeatureSet] : n \in 0..2}}

\* Segment::new(a, b, number)
Segment(a, b, number) == [from |-> a, to |-> b, number |-> number]

\* for point in line_string, from the k-th position on; last is last_point
RECURSIVE LineSegments(_, _, _, _)
LineSegments(line_string, k, last, number) ==
    IF k > Len(line_string)
    THEN <<>>
    ELSE IF Len(line_string[k]) >= 2
    THEN LET current_point ==
                 forward([lat |-> line_string[k][2], lon |-> line_string[k][1]])
         IN  (IF last # <<>>
              THEN <<Segment(last[1], current_point, number)>>
              ELSE <<>>)
                 \o LineSegments(line_string, k + 1, <<current_point>>, number)
    ELSE LineSegments(line_string, k + 1, last, number)

\* the segments one feature adds
FeatureSegments(feature) ==
    IF feature.geometry.type = "LineString" /\ feature.number # <<>>
    THEN LineSegments(feature.geometry.coordinates, 1, <<>>, feature.number[1])
    ELSE <<>>

\* for feature in &fc.features, from the k-th feature on
RECURSIVE AllSegments(_, _)
AllSegments(features, k) ==
    IF k > Len(features)
    THEN <<>>
    ELSE FeatureSegments(features[k]) \o AllSegments(features, k + 1)

\* faulty variant: an empty list of segments is let through
IsEmptyNever(segments) == FALSE

\* segments.is_empty()
IsEmpty(segments) == segments = <<>>

\* geojson_to_rtree: Err when the file does not parse, when it is no
\* FeatureCollection, and when there are no segments
geojson_to_rtree(doc) ==
    IF doc.kind = "invalid"
    THEN [ok |-> FALSE, segments |-> <<>>]
    ELSE IF doc.kind # "FeatureCollection"
    THEN [ok |-> FALSE, segments |-> <<>>]
    ELSE IF IsEmpty(AllSegments(doc.features, 1))
    THEN [ok |-> FALSE, segments |-> <<>>]
    ELSE [ok |-> TRUE, segments |-> AllSegments(doc.features, 1)]

\* the sequence of the elements of s at the positions in keep
RECURSIVE Picked(_, _, _)
Picked(s, keep, k) ==
    IF k > Len(s) THEN <<>>
    ELSE (IF k \in keep THEN <<s[k]>> ELSE <<>>) \o Picked(s, keep, k + 1)

InitCompare ==
    /\ gj_doc \in DocSet
    /\ cmp_state = "none"
    /\ ref_segments = <<>>
    /\ files_created = FALSE
    /\ csv_rows = <<>>
    /\ OrientIdle
    /\ DensIdle
    /\ PipeIdle
    /\ WriterIdle
    /\ ReaderClosed(<<>>)
    /\ NetIdle
    /\ PolyIdle
    /\ MoreIdle

\* compare(net, geojson_path, number_property).  Which reference segments
\* end as a record of comparison.csv depends on the simulated segments near
\* them: any of them may (matched); creating or writing the two output files
\* may fail (io_ok)
Compare(matched, io_ok) ==
    /\ cmp_state = "none"
    /\ LET reference_traffic == geojson_to_rtree(gj_doc) IN
          IF ~reference_traffic.ok
          THEN /\ cmp_state' = "err"
               /\ matched = {}
               /\ io_ok
               /\ UNCHANGED <<ref_segments, files_created, csv_rows>>
          ELSE /\ ref_segments' = reference_traffic.segments
               /\ files_created' = TRUE
               /\ matched \subseteq 1..Len(reference_traffic.segments)
               /\ csv_rows' = Picked(reference_traffic.segments, matched, 1)
               /\ cmp_state' = IF io_ok THEN "ok" ELSE "err"
    /\ UNCHANGED <<gj_doc, orientVars, densVars, pipeVars, fileVars, netVars,
                   polyVars, moreVars>>

NextCompare ==
    \E matched \in SUBSET (1..Len(geojson_to_rtree(gj_doc).segments)),
       io_ok \in BOOLEAN :
        Compare(matched, io_ok)

SpecCompare == InitCompare /\ [][NextCompare]_vars

----------------------------------------------------------------------------
(* Claims about the reference file *)

\* a LineString with at least two usable positions and the numeric property
Qualifies(feature) ==
    /\ feature.geometry.type = "LineString"
    /\ feature.number # <<>>
    /\ Cardinality({k \in 1..Len(feature.geometry.coordinates) :
                       Len(feature.geometry.coordinates[k]) >= 2}) >= 2

\* C18: when the top-level object of the reference file is no
\* FeatureCollection, and when no feature is a LineString with at least two
\* usable positions and the named numeric property, geojson_to_rtree fails
\* and compare returns the error without an output row.
C18_NoSegmentsIsAnError ==
    (cmp_state # "none"
        /\ (gj_doc.kind # "FeatureCollection"
              \/ \A k \in 1..Len(gj_doc.features) : ~Qualifies(gj_doc.features[k])))
    => /\ cmp_state = "err"
       /\ ref_segments = <<>>
       /\ csv_rows = <<>>
       /\ ~files_created

\* a FeatureCollection of two LineStrings: one has two usable positions but
\* not the property, the other the property but one usable position only
C18_Witness ==
    /\ cmp_state = "err"
    /\ gj_doc.kind = "FeatureCollection"
    /\ Len(gj_doc.features) = 2
    /\ gj_doc.features[1].geometry.coordinates = <<<<10, 52>>, <<12, 53>>>>
    /\ gj_doc.features[1].number = <<>>
    /\ gj_doc.features[2].geometry.coordinates = <<<<10, 52>>, <<7>>>>
    /\ gj_doc.features[2].number # <<>>
    /\ ~files_created

\* a file that is no FeatureCollection
C18_WitnessKind ==
    /\ cmp_state = "err"
    /\ gj_doc.kind = "Feature"
    /\ ~files_created

----------------------------------------------------------------------------
(* Claims about the shape of the polylines *)

\* the number of edge ends at the node x, a self-loop counting twice
DegreeOf(x) ==
    Cardinality({n \in 1..Len(FullEdges) : FullEdges[n][1] = x})
        + Cardinality({n \in 1..Len(FullEdges) : FullEdges[n][2] = x})

\* the nodes joined to x by an edge
NeighboursOf(x) == {y \in OsmIdsOfNodes : IsEdge(x, y)}

\* C19: in every polyline each point other than the first and the last is a
\* node of degree 2; the polyline ends at a node of degree other than 2 or at
\* a node it already holds; and when the construction is over, every edge at
\* an end node of degree 2 lies in that polyline, none is left to another.
C19_PolylinesAreMaximal ==
    \A p \in 1..Len(polylines) :
        LET poly == polylines[p]
            first == poly[1]
            last == poly[Len(poly)]
        IN  /\ \A k \in 2..(Len(poly) - 1) : DegreeOf(poly[k]) = 2
            /\ DegreeOf(last) # 2 \/ \E k \in 1..(Len(poly) - 1) : poly[k] = last
            /\ pstate = "done" =>
                  \A x \in {first, last} :
                      DegreeOf(x) = 2 =>
                          \A y \in NeighboursOf(x) : PolylinesWith(x, y) = {p}

\* a polyline of three points between two nodes of degree 1 or 3, beside a
\* closed one that starts and ends at a node of degree 2
C19_Witness ==
    /\ pstate = "done"
    /\ \E p \in 1..Len(polylines) :
          /\ Len(polylines[p]) = 3
          /\ DegreeOf(polylines[p][1]) # 2
          /\ DegreeOf(polylines[p][3]) # 2
          /\ polylines[p][1] # polylines[p][3]
    /\ \E p \in 1..Len(polylines) :
          /\ DegreeOf(polylines[p][1]) = 2
          /\ polylines[p][Len(polylines[p])] = polylines[p][1]

\* every walk held each node at most once before the point it stopped at
WalksVisitOnce ==
    \A p \in 1..Len(polylines) :
        /\ \A j, k \in 1..(Len(polylines[p]) - 1) :
              j # k => polylines[p][j] # polylines[p][k]
        /\ Len(polylines[p]) <= Cardinality(OsmIdsOfNodes) + 1

\* the keys of adja the two loops have yet to reach
KeysLeft == Cardinality(todo1) + Cardinality(todo2)

\* C20: PolylineCollection::new terminates on every finite network, pure
\* cycles of degree-2 nodes, self-loops and parallel or antiparallel edges
\* included: every turn of its two loops leaves fewer keys to reach, it
\* returns when none is left, and each walk of follow made in the turn has
\* stopped after visiting every node at most once.
C20_NewTerminates ==
    [][/\ pstate = "building"
       /\ KeysLeft' < KeysLeft
       /\ pstate' = "done" <=> KeysLeft' = 0
       /\ WalksVisitOnce'
    ]_vars

\* the construction is over for a network with a self-loop and a pair of
\* antiparallel edges, and one walk went round a cycle of three nodes
C20_Witness ==
    /\ pstate = "done"
    /\ \E n \in 1..Len(FullEdges) : FullEdges[n][1] = FullEdges[n][2]
    /\ \E n, k \in 1..Len(FullEdges) :
          /\ FullEdges[n][1] # FullEdges[n][2]
          /\ FullEdges[n] = <<FullEdges[k][2], FullEdges[k][1]>>
    /\ WalksVisitOnce

\* the construction is over for a pure cycle, walked once round
C20_WitnessCycle ==
    /\ pstate = "done"
    /\ \A x \in OsmIdsOfNodes : DegreeOf(x) = 2
    /\ Len(polylines) = 1
    /\ Len(polylines[1]) = Cardinality(OsmIdsOfNodes) + 1

----------------------------------------------------------------------------
(* BoundingBox::get_3035_bounds (bounding_box.rs).  laea::forward is the    *)
(* projection to EPSG:3035 (Lambert azimuthal equal-area on GRS80, centre   *)
(* 52N 10E, false easting 4321 km, false northing 3210 km); it is given by  *)
(* its values on a grid of points, rounded to the kilometre.                *)

\* latitudes and longitudes of the corners, in degrees
LatSet == {40, 50, 60}
LonSet == {0, 10, 20, 100, 170}

BoxPointSet == [lat : LatSet, lon : LonSet]

\* laea::forward: <<easting, northing>> in km
laea_forward(p) ==
    CASE p.lat = 40 ->
            (CASE p.lon = 0 -> <<3465, 1935>>
               [] p.lon = 10 -> <<4321, 1878>>
               [] p.lon = 20 -> <<5177, 1935>>
               [] p.lon = 100 -> <<9961, 6116>>
               [] p.lon = 170 -> <<6620, 11639>>)
      [] p.lat = 50 ->
            (CASE p.lon = 0 -> <<3607, 3036>>
               [] p.lon = 10 -> <<4321, 2988>>
               [] p.lon = 20 -> <<5035, 3036>>
               [] p.lon = 100 -> <<8911, 6569>>
               [] p.lon = 170 -> <<6114, 10920>>)
      [] p.lat = 60 ->
            (CASE p.lon = 0 -> <<3764, 4139>>
               [] p.lon = 10 -> <<4321, 4100>>
               [] p.lon = 20 -> <<4878, 4139>>
               [] p.lon = 100 -> <<7809, 6920>>
               [] p.lon = 170 -> <<5633, 10124>>)

\* f64::max
FMax(x, y) == IF x >= y THEN x ELSE y

\* fn get_3035_bounds
get_3035_bounds(b) ==
    LET sw == laea_forward(b.sw)
        ne == laea_forward(b.ne)
        se == laea_forward([lat |-> b.sw.lat, lon |-> b.ne.lon])
        nw == laea_forward([lat |-> b.ne.lat, lon |-> b.sw.lon])
        bound_sw == <<FMin(sw[1], nw[1]), FMin(sw[2], se[2])>>
        bound_ne == <<FMax(se[1], ne[1]), FMax(nw[2], ne[2])>>
    IN  [sw |-> bound_sw, ne |-> bound_ne]

\* BoundingBox::new(sw, ne): any two points
InitBox ==
    /\ bbox \in [sw : BoxPointSet, ne : BoxPointSet]
    /\ bbox_out = <<>>
    /\ WriterIdle
    /\ ReaderClosed(<<>>)
    /\ NetIdle
    /\ PolyIdle
    /\ DensIdle
    /\ PipeIdle
    /\ OrientIdle
    /\ GeoIdle
    /\ GwIdle
    /\ MatchIdle

\* bbox.get_3035_bounds()
Get3035Bounds ==
    /\ bbox_out = <<>>
    /\ bbox_out' = <<get_3035_bounds(bbox)>>
    /\ UNCHANGED <<bbox, fileVars, netVars, polyVars, densVars, pipeVars,
                   cmpVars, gwVars, matchVars>>

NextBox == Get3035Bounds

SpecBox == InitBox /\ [][NextBox]_vars

----------------------------------------------------------------------------
(* Claims about the projected bounding box *)

\* the projections of the four corners of the box b
ProjectedCorners(b) ==
    {laea_forward([lat |-> la, lon |-> lo]) :
        la \in {b.sw.lat, b.ne.lat}, lo \in {b.sw.lon, b.ne.lon}}

\* a box whose sw corner is south and west of its ne corner
SouthWestFirst(b) == b.sw.lat <= b.ne.lat /\ b.sw.lon <= b.ne.lon

\* C26: the box get_3035_bounds returns is the envelope of the four projected
\* corners: its least easting and northing are the least among the four, its
\* greatest the greatest, so each projected corner lies inside it.  (Stated
\* for the boxes whose sw corner is south and west of the ne corner.)
C26_BoundsAreTheEnvelope ==
    (bbox_out # <<>> /\ SouthWestFirst(bbox)) =>
        \A c \in ProjectedCorners(bbox) :
            /\ bbox_out[1].sw[1] <= c[1]
            /\ bbox_out[1].sw[2] <= c[2]
            /\ c[1] <= bbox_out[1].ne[1]
            /\ c[2] <= bbox_out[1].ne[2]

----------------------------------------------------------------------------
(* GeoJsonWriter and FeatureWriter (geojson_writer.rs).  The output is the  *)
(* sequence of the pieces handed to the BufWriter: "head" (the opening of   *)
(* the collection), "sep" (the comma in front of a feature), "line" and     *)
(* "point" (the opening of a feature), "coord" and "csep" (a position, the  *)
(* comma in front of it), "props" (the end of a LineString's geometry),     *)
(* "prop" and "psep" (a property, the comma in front of it), "close" (the   *)
(* braces that close a feature) and "foot" (the end of the collection).     *)
(* A write to the BufWriter returns Ok, or Err with nothing taken; a flush  *)
(* returns Ok or Err.  A FeatureWriter borrows the writer: while it lives,  *)
(* the writer is not used, finished or dropped.  (A run is cut after the    *)
(* first add_line_string, add_point or add_property that returns Err and    *)
(* is followed by another one.)                                             *)

\* the features one writer is given, the positions of a LineString, the
\* properties of a feature
MaxFeatures == 2
MaxCoords == 2
MaxProps == 2

\* the pieces written for the positions i..n of a LineString
RECURSIVE CoordPieces(_, _)
CoordPieces(i, n) ==
    IF i > n THEN <<>>
    ELSE (IF i > 1 THEN <<"csep">> ELSE <<>>) \o <<"coord">> \o CoordPieces(i + 1, n)

\* the number of pieces of kind k in text
RECURSIVE CountOf(_, _)
CountOf(text, k) ==
    IF text = <<>> THEN 0
    ELSE (IF text[1] = k THEN 1 ELSE 0) + CountOf(Tail(text), k)

\* the features begun so far
FeaturesBegun == CountOf(gw_text, "line") + CountOf(gw_text, "point")

\* GeoJsonWriter::new, Ok
InitGeoJson ==
    /\ gw_state = "open"
    /\ is_first_feature = TRUE
    /\ gw_finished = FALSE
    /\ gw_text = <<"head">>
    /\ gw_write_failed = FALSE
    /\ fw_state = "none"
    /\ fw_is_first = TRUE
    /\ fw_finished = FALSE
    /\ WriterIdle
    /\ ReaderClosed(<<>>)
    /\ NetIdle
    /\ PolyIdle
    /\ DensIdle
    /\ PipeIdle
    /\ OrientIdle
    /\ GeoIdle
    /\ BoxIdle
    /\ MatchIdle

\* what the rest of the program does meanwhile: nothing
GwFrame ==
    UNCHANGED <<fileVars, netVars, polyVars, densVars, pipeVars, cmpVars,
                boxVars, matchVars>>

\* add_line_string and add_point: the pieces in the order of their writes;
\* the first writes of them return Ok (all of them: Ok(FeatureWriter))
AddFeature(pieces, written_ok) ==
    /\ gw_state = "open"
    /\ fw_state = "none"
    /\ FeaturesBegun < MaxFeatures
    /\ LET all == (IF is_first_feature THEN <<>> ELSE <<"sep">>) \o pieces IN
          /\ written_ok \in 0..Len(all)
          /\ written_ok < Len(all) => ~gw_write_failed
          /\ gw_text' = gw_text \o SubSeq(all, 1, written_ok)
          /\ IF written_ok = Len(all)
             THEN /\ fw_state' = "open"
                  /\ fw_is_first' = TRUE
                  /\ fw_finished' = FALSE
                  /\ UNCHANGED gw_write_failed
             ELSE /\ gw_write_failed' = TRUE
                  /\ UNCHANGED <<fw_state, fw_is_first, fw_finished>>
    /\ is_first_feature' = FALSE
    /\ UNCHANGED <<gw_state, gw_finished>>
    /\ GwFrame

\* add_line_string(coords), coords.len() = n
AddLineString(n, written_ok) ==
    AddFeature(<<"line">> \o CoordPieces(1, n) \o <<"props">>, written_ok)

\* add_point(coord)
AddPoint(written_ok) == AddFeature(<<"point">>, written_ok)

\* FeatureWriter::add_property
AddProperty(written_ok) ==
    /\ fw_state = "open"
    /\ CountOf(gw_text, "prop") < MaxProps
    /\ LET all == (IF fw_is_first THEN <<>> ELSE <<"psep">>) \o <<"prop">> IN
          /\ written_ok \in 0..Len(all)
          /\ written_ok < Len(all) => ~gw_write_failed
          /\ gw_text' = gw_text \o SubSeq(all, 1, written_ok)
          /\ gw_write_failed' = (gw_write_failed \/ written_ok < Len(all))
    /\ fw_is_first' = FALSE
    /\ UNCHANGED <<gw_state, is_first_feature, gw_finished, fw_state,
                   fw_finished>>
    /\ GwFrame

\* FeatureWriter::mut_finish: [text, finished, failed] after it
FeatureMutFinish(text, finished, write_ok) ==
    IF finished
    THEN [text |-> text, finished |-> TRUE, failed |-> FALSE]
    ELSE IF write_ok
    THEN [text |-> Append(text, "close"), finished |-> TRUE, failed |-> FALSE]
    ELSE [text |-> text, finished |-> FALSE, failed |-> TRUE]

\* FeatureWriter::finish(mut self): mut_finish, then self is dropped, which
\* calls mut_finish again
FeatureFinish(write_ok, drop_write_ok) ==
    /\ fw_state = "open"
    /\ LET first == FeatureMutFinish(gw_text, fw_finished, write_ok)
           last == FeatureMutFinish(first.text, first.finished, drop_write_ok)
       IN  /\ gw_text' = last.text
           /\ fw_finished' = last.finished
           /\ gw_write_failed' = (gw_write_failed \/ first.failed \/ last.failed)
    /\ fw_state' = "none"
    /\ UNCHANGED <<gw_state, is_first_feature, gw_finished, fw_is_first>>
    /\ GwFrame

\* a FeatureWriter goes out of scope without finish
FeatureDrop(write_ok) ==
    /\ fw_state = "open"
    /\ LET last == FeatureMutFinish(gw_text, fw_finished, write_ok) IN
          /\ gw_text' = last.text
          /\ fw_finished' = last.finished
          /\ gw_write_failed' = (gw_write_failed \/ last.failed)
    /\ fw_state' = "none"
    /\ UNCHANGED <<gw_state, is_first_feature, gw_finished, fw_is_first>>
    /\ GwFrame

\* GeoJsonWriter::mut_finish: write_all, flush, then finished = true; the
\* outcome is "ok", "write_err" (write_all fails) or "flush_err"
WriterMutFinish(text, finished, outcome) ==
    IF finished
    THEN [text |-> text, finished |-> TRUE, failed |-> FALSE]
    ELSE IF outcome = "write_err"
    THEN [text |-> text, finished |-> FALSE, failed |-> TRUE]
    ELSE IF outcome = "flush_err"
    THEN [text |-> Append(text, "foot"), finished |-> FALSE, failed |-> FALSE]
    ELSE [text |-> Append(text, "foot"), finished |-> TRUE, failed |-> FALSE]

Outcomes == {"ok", "write_err", "flush_err"}

\* GeoJsonWriter::finish(mut self): mut_finish, then self is dropped, which
\* calls mut_finish again
WriterFinish(outcome, drop_outcome) ==
    /\ gw_state = "open"
    /\ fw_state = "none"
    /\ LET first == WriterMutFinish(gw_text, gw_finished, outcome)
           last == WriterMutFinish(first.text, first.finished, drop_outcome)
       IN  /\ gw_text' = last.text
           /\ gw_finished' = last.finished
           /\ gw_write_failed' = (gw_write_failed \/ first.failed \/ last.failed)
    /\ gw_state' = "gone"
    /\ UNCHANGED <<is_first_feature, fw_state, fw_is_first, fw_finished>>
    /\ GwFrame

\* the writer goes out of scope without finish
WriterDrop(outcome) ==
    /\ gw_state = "open"
    /\ fw_state = "none"
    /\ LET last == WriterMutFinish(gw_text, gw_finished, outcome) IN
          /\ gw_text' = last.text
          /\ gw_finished' = last.finished
          /\ gw_write_failed' = (gw_write_failed \/ last.failed)
    /\ gw_state' = "gone"
    /\ UNCHANGED <<is_first_feature, fw_state, fw_is_first, fw_finished>>
    /\ GwFrame

NextGeoJson ==
    \/ \E n \in 0..MaxCoords, written_ok \in 0..(2 * MaxCoords + 2) :
          AddLineString(n, written_ok)
    \/ \E written_ok \in 0..2 : AddPoint(written_ok)
    \/ \E written_ok \in 0..2 : AddProperty(written_ok)
    \/ \E write_ok \in BOOLEAN, drop_write_ok \in BOOLEAN :
          FeatureFinish(write_ok, drop_write_ok)
    \/ \E write_ok \in BOOLEAN : FeatureDrop(write_ok)
    \/ \E outcome \in Outcomes, drop_outcome \in Outcomes :
          WriterFinish(outcome, drop_outcome)
    \/ \E outcome \in Outcomes : WriterDrop(outcome)

SpecGeoJson == InitGeoJson /\ [][NextGeoJson]_vars

----------------------------------------------------------------------------
(* Claims about the GeoJSON writer *)

\* C29: whatever the sequence of operations, once the writer is gone (by
\* finish, by drop, or by finish and the drop that follows it) the end of the
\* collection has been written exactly once, the closing braces of each
\* feature exactly once, and n features are separated by n - 1 commas.
\* (Stated for the runs in which no write to the BufWriter returned Err.)
C29_EverythingClosedOnce ==
    (gw_state = "gone" /\ ~gw_write_failed) =>
        /\ CountOf(gw_text, "foot") = 1
        /\ CountOf(gw_text, "close") = FeaturesBegun
        /\ CountOf(gw_text, "sep") = Max(FeaturesBegun - 1, 0)

----------------------------------------------------------------------------
(* compare (compare.rs): the loop over the reference segments, once both    *)
(* RTrees are built and the two output files created.  A point is <<x, y>>  *)
(* in metres.  The segments lie on a grid on which every line that is met   *)
(* (a segment, a connection, a rotated connection) is parallel to an axis,  *)
(* a diagonal or of length zero: its angle is a multiple of pi/4 and every  *)
(* nearest point has whole coordinates.                                     *)

\* the segments of the reference tree and of the simulated tree, at most
MaxRef == 2
MaxSim == 2

\* 20_f64.powi(2)
MaxSquaredDist == 400

\* reference segments: two parallel ones 10 m apart (one of them pointing
\* west), one across their west ends, one far away; with and without traffic
RefSegmentSet ==
    {Segment(l[1], l[2], n) :
        l \in {<<<<0, 0>>, <<20, 0>>>>, <<<<20, 10>>, <<0, 10>>>>,
               <<<<0, 0>>, <<0, 20>>>>, <<<<100, 100>>, <<120, 100>>>>},
        n \in {0, 5}}

\* simulated segments (edges with number > 0): on the first reference
\* segment, 10 m north of it, north-east of it, across it, and far away
SimSegmentSet ==
    {Segment(l[1], l[2], n) :
        l \in {<<<<0, 0>>, <<20, 0>>>>, <<<<0, 10>>, <<20, 10>>>>,
               <<<<20, 10>>, <<40, 10>>>>, <<<<10, 10>>, <<10, 30>>>>,
               <<<<100, 110>>, <<120, 110>>>>},
        n \in {1, 2}}

\* the trees of at most n segments
TreesOf(set, n) == UNION {[1..k -> set] : k \in 0..n}

\* Line::new(from, to) of two points with whole coordinates, as f64
LineNew(from, to) ==
    [from |-> <<[v |-> from[1], neg |-> FALSE], [v |-> from[2], neg |-> FALSE]>>,
     to |-> <<[v |-> to[1], neg |-> FALSE], [v |-> to[2], neg |-> FALSE]>>]

\* fn line_center (the sums are even on the grid)
line_center(seg) ==
    <<(seg.from[1] + seg.to[1]) \div 2, (seg.from[2] + seg.to[2]) \div 2>>

\* fn line_rotate_90, of the line from a to b: <<from, to>>
line_rotate_90(a, b) ==
    LET dx == b[1] - a[1]
        dy == b[2] - a[2]
    IN  <<a, <<a[1] + dy, a[2] - dx>>>>

\* rstar's Line::nearest_point: the projection of p on the line, kept
\* between its ends (the divisions are exact on the grid)
nearest_point(seg, p) ==
    LET dir == <<seg.to[1] - seg.from[1], seg.to[2] - seg.from[2]>>
        uv == (p[1] - seg.from[1]) * dir[1] + (p[2] - seg.from[2]) * dir[2]
        len2 == dir[1] * dir[1] + dir[2] * dir[2]
    IN  IF len2 # 0 /\ 0 < uv /\ uv < len2
        THEN <<seg.from[1] + (dir[1] * uv) \div len2,
               seg.from[2] + (dir[2] * uv) \div len2>>
        ELSE IF len2 # 0 /\ uv <= 0 THEN seg.from ELSE seg.to

\* PointDistance::distance_2 of a Segment
distance_2(seg, p) ==
    LET q == nearest_point(seg, p) IN
        (p[1] - q[1]) * (p[1] - q[1]) + (p[2] - q[2]) * (p[2] - q[2])

\* order, with the position i of the tree put in by its distance from p
\* (behind the positions that are as near)
RECURSIVE PutInOrder(_, _, _, _)
PutInOrder(order, i, tree, p) ==
    IF order = <<>> THEN <<i>>
    ELSE IF distance_2(tree[order[1]], p) <= distance_2(tree[i], p)
    THEN <<order[1]>> \o PutInOrder(Tail(order), i, tree, p)
    ELSE <<i>> \o order

\* rtree.nearest_neighbor_iter_with_distance_2(&point): the positions of the
\* first n segments of the tree, nearest first
RECURSIVE NearestFirst(_, _, _)
NearestFirst(tree, p, n) ==
    IF n = 0 THEN <<>>
    ELSE PutInOrder(NearestFirst(tree, p, n - 1), n, tree, p)

\* the SegmentMatch pushed for the neighbour nn
SegmentMatch(segment, point, nn) ==
    LET to_point == nearest_point(nn, point)
        rotated == line_rotate_90(point, to_point)
    IN  [from_segment |-> segment,
         from_point |-> point,
         to_segment |-> nn,
         to_point |-> to_point,
         distance_2 |-> distance_2(nn, point),
         orientation_diff |->
             orientation_diff(LineNew(segment.from, segment.to),
                              LineNew(nn.from, nn.to)),
         connection_90_diff |->
             orientation_diff(LineNew(segment.from, segment.to),
                              LineNew(rotated[1], rotated[2]))]

\* the loop of find_matching_segments from the j-th neighbour on
RECURSIVE MatchesFrom(_, _, _, _, _, _)
MatchesFrom(segment, point, rtree, order, j, max_squared_dist) ==
    IF j > Len(order) THEN <<>>
    ELSE IF distance_2(rtree[order[j]], point) > max_squared_dist THEN <<>>
    ELSE <<SegmentMatch(segment, point, rtree[order[j]])>>
            \o MatchesFrom(segment, point, rtree, order, j + 1, max_squared_dist)

\* fn find_matching_segments; segment_point is an Option
find_matching_segments(segment, segment_point, rtree, max_squared_dist) ==
    LET point == IF segment_point = <<>> THEN line_center(segment)
                 ELSE segment_point[1]
    IN  MatchesFrom(segment, point, rtree, NearestFirst(rtree, point, Len(rtree)),
                    1, max_squared_dist)

\* angle > 0.01, for an angle in units of pi/4 (pi/4 = 0.785..)
Above001(angle) == angle * 785 > 10

\* faulty variant: a second reference segment near the match is let through
TooManyReverseTwo(n) == n > 2

\* rev_matches.len() > 1
TooManyReverse(n) == n > 1

\* the closure of all_good, for one match
GoodMatch(sim_match, reference) ==
    IF Above001(sim_match.orientation_diff)
          \/ Above001(sim_match.connection_90_diff)
    THEN FALSE
    ELSE ~TooManyReverse(Len(find_matching_segments(
              sim_match.to_segment, <<sim_match.to_point>>, reference,
              MaxSquaredDist)))

\* faulty variant: a segment without matches is discarded
IterAllAndSome(matches, reference) ==
    /\ matches # <<>>
    /\ \A i \in 1..Len(matches) : GoodMatch(matches[i], reference)

\* matches.iter().all(..)
IterAll(matches, reference) ==
    \A i \in 1..Len(matches) : GoodMatch(matches[i], reference)

\* faulty variant: the matches are counted, not their numbers added
SimNumberCounted(sim_number, m) == sim_number + 1

\* sim_number += m.to_segment.number
SimNumberAdded(sim_number, m) == sim_number + m.to_segment.number

\* sim_number after the first i matches
RECURSIVE SimNumber(_, _)
SimNumber(matches, i) ==
    IF i = 0 THEN 0
    ELSE SimNumberAdded(SimNumber(matches, i - 1), matches[i])

\* the connection feature of the match m of the k-th reference segment
ConnectionFeature(m, k) ==
    [type |-> "LineString",
     coordinates |-> <<backward(m.from_point), backward(m.to_point)>>,
     number_ref |-> m.from_segment.number,
     number_sim |-> m.to_segment.number,
     length_2 |-> m.distance_2,
     of |-> k]

\* the point feature of the k-th reference segment
PointFeature(ref_segment, matches, k) ==
    [type |-> "Point",
     coordinates |-> <<backward(line_center(ref_segment))>>,
     number_ref |-> ref_segment.number,
     number_sim |-> SimNumber(matches, Len(matches)),
     diff |-> SimNumber(matches, Len(matches)) - ref_segment.number,
     number_connections |-> Len(matches),
     of |-> k]

\* what one turn of the loop adds to connections.geojson, in order
FeaturesOf(reference, simulated, k) ==
    LET matches == find_matching_segments(reference[k], <<>>, simulated,
                                          MaxSquaredDist)
    IN  IF IterAll(matches, reference)
        THEN [i \in 1..Len(matches) |-> ConnectionFeature(matches[i], k)]
                \o <<PointFeature(reference[k], matches, k)>>
        ELSE <<>>

\* what one turn of the loop adds to comparison.csv
RecordsOf(reference, simulated, k) ==
    LET matches == find_matching_segments(reference[k], <<>>, simulated,
                                          MaxSquaredDist)
        sim_number == SimNumber(matches, Len(matches))
    IN  IF IterAll(matches, reference)
           /\ reference[k].number > 0 /\ sim_number > 0
        THEN <<[reference_traffic |-> reference[k].number,
                simulated_traffic |-> sim_number,
                num_sim_segments |-> Len(matches),
                of |-> k]>>
        ELSE <<>>

\* compare has built both trees and created both files
InitMatch ==
    /\ ref_traffic \in TreesOf(RefSegmentSet, MaxRef) \ {<<>>}
    /\ sim_traffic \in TreesOf(SimSegmentSet, MaxSim)
    /\ cm_state = "running"
    /\ cm_next = 1
    /\ cm_features = <<>>
    /\ cm_records = <<>>
    /\ WriterIdle
    /\ ReaderClosed(<<>>)
    /\ NetIdle
    /\ PolyIdle
    /\ DensIdle
    /\ PipeIdle
    /\ OrientIdle
    /\ GeoIdle
    /\ BoxIdle
    /\ GwIdle

MatchFrame ==
    UNCHANGED <<ref_traffic, sim_traffic, fileVars, netVars, polyVars,
                densVars, pipeVars, cmpVars, boxVars, gwVars>>

\* one turn of for ref_segment in &reference_traffic, all its writes Ok
CompareSegment ==
    /\ cm_state = "running"
    /\ cm_next <= Len(ref_traffic)
    /\ cm_features' = cm_features \o FeaturesOf(ref_traffic, sim_traffic, cm_next)
    /\ cm_records' = cm_records \o RecordsOf(ref_traffic, sim_traffic, cm_next)
    /\ cm_next' = cm_next + 1
    /\ UNCHANGED cm_state
    /\ MatchFrame

\* one turn in which a write returns Err, after n features were added:
\* compare returns the Err
CompareSegmentFail(n) ==
    /\ cm_state = "running"
    /\ cm_next <= Len(ref_traffic)
    /\ LET features == FeaturesOf(ref_traffic, sim_traffic, cm_next)
           records == RecordsOf(ref_traffic, sim_traffic, cm_next)
       IN  /\ n <= Len(features)
           /\ n = Len(features) => records # <<>>
           /\ cm_features' = cm_features \o SubSeq(features, 1, n)
    /\ cm_state' = "err"
    /\ UNCHANGED <<cm_next, cm_records>>
    /\ MatchFrame

\* writer.finish()?; csv_writer.flush()?; Ok(())
CompareEnd(io_ok) ==
    /\ cm_state = "running"
    /\ cm_next > Len(ref_traffic)
    /\ cm_state' = IF io_ok THEN "ok" ELSE "err"
    /\ UNCHANGED <<cm_next, cm_features, cm_records>>
    /\ MatchFrame

NextMatch ==
    \/ CompareSegment
    \/ \E n \in 0..MaxSim : CompareSegmentFail(n)
    \/ \E io_ok \in BOOLEAN : CompareEnd(io_ok)

SpecMatch == InitMatch /\ [][NextMatch]_vars

----------------------------------------------------------------------------
(* Claims about the loop of compare.  A reference segment has been gone     *)
(* through when its turn of the loop ended without an Err, that is when it  *)
(* lies before cm_next.                                                     *)

\* the matches of the k-th reference segment
MatchesOf(k) ==
    find_matching_segments(ref_traffic[k], <<>>, sim_traffic, MaxSquaredDist)

\* the hits of the reverse query for the match m
ReverseHits(m) ==
    Len(find_matching_segments(m.to_segment, <<m.to_point>>, ref_traffic,
                               MaxSquaredDist))

FeaturesFor(k) == SelectSeq(cm_features, LAMBDA f : f.of = k)
LineStringsFor(k) == SelectSeq(cm_features,
                               LAMBDA f : f.of = k /\ f.type = "LineString")
PointsFor(k) == SelectSeq(cm_features, LAMBDA f : f.of = k /\ f.type = "Point")
RecordsFor(k) == SelectSeq(cm_records, LAMBDA r : r.of = k)

\* some match of the k-th reference segment fails one of the two tests
SomeMatchFails(k) ==
    \E i \in 1..Len(MatchesOf(k)) :
        \/ MatchesOf(k)[i].orientation_diff * 785 > 10
        \/ MatchesOf(k)[i].connection_90_diff * 785 > 10
        \/ ReverseHits(MatchesOf(k)[i]) > 1

\* the sum of the numbers of the matched segments
RECURSIVE NumbersOf(_)
NumbersOf(matches) ==
    IF matches = <<>> THEN 0
    ELSE Head(matches).to_segment.number + NumbersOf(Tail(matches))

\* C22: a reference segment that was gone through has nothing written for it
\* (no point feature, no connection line, no CSV row) if and only if one of
\* its matches has orientation_diff > 0.01 or connection_90_diff > 0.01 or a
\* reverse query with more than one hit; it is accepted only when every match
\* passes both tests.
C22_RejectedIffSomeMatchFails ==
    \A k \in 1..(cm_next - 1) :
        SomeMatchFails(k) <=> (FeaturesFor(k) = <<>> /\ RecordsFor(k) = <<>>)

\* compare returned Ok after rejecting a segment for its reverse query alone
\* (the match lies on it, a second reference segment is 10 m away)
C22_Witness ==
    /\ cm_state = "ok"
    /\ \E k \in 1..(cm_next - 1) :
          /\ MatchesOf(k) # <<>>
          /\ \A i \in 1..Len(MatchesOf(k)) :
                /\ MatchesOf(k)[i].orientation_diff = 0
                /\ MatchesOf(k)[i].connection_90_diff = 0
          /\ \E i \in 1..Len(MatchesOf(k)) : ReverseHits(MatchesOf(k)[i]) = 2
          /\ FeaturesFor(k) = <<>>
          /\ RecordsFor(k) = <<>>

\* C23: for an accepted reference segment that was gone through there is
\* exactly one point feature, with number_sim the sum of the numbers of all
\* its matches, diff = number_sim - number_ref and number_connections the
\* number of matches; one connection LineString per match, in their order,
\* before the point; and a CSV row (number_ref, number_sim, number of
\* matches) if and only if number_ref > 0 and number_sim > 0.
C23_AcceptedSegmentOutput ==
    \A k \in 1..(cm_next - 1) :
        ~SomeMatchFails(k) =>
            LET matches == MatchesOf(k)
                n == Len(matches)
                number_ref == ref_traffic[k].number
                number_sim == NumbersOf(matches)
            IN  /\ Len(FeaturesFor(k)) = n + 1
                /\ Len(PointsFor(k)) = 1
                /\ FeaturesFor(k)[n + 1].type = "Point"
                /\ PointsFor(k)[1].number_ref = number_ref
                /\ PointsFor(k)[1].number_sim = number_sim
                /\ PointsFor(k)[1].diff = number_sim - number_ref
                /\ PointsFor(k)[1].number_connections = n
                /\ Len(LineStringsFor(k)) = n
                /\ \A i \in 1..n :
                      /\ LineStringsFor(k)[i].coordinates =
                            <<backward(matches[i].from_point),
                              backward(matches[i].to_point)>>
                      /\ LineStringsFor(k)[i].number_sim =
                            matches[i].to_segment.number
                /\ (number_ref > 0 /\ number_sim > 0) <=> RecordsFor(k) # <<>>
                /\ Len(RecordsFor(k)) <= 1
                /\ \A i \in 1..Len(RecordsFor(k)) :
                      /\ RecordsFor(k)[i].reference_traffic = number_ref
                      /\ RecordsFor(k)[i].simulated_traffic = number_sim
                      /\ RecordsFor(k)[i].num_sim_segments = n

\* compare returned Ok after accepting a segment of number 5 with two
\* matches of numbers 1 and 2: two lines, the point and the row (5, 3, 2)
C23_Witness ==
    /\ cm_state = "ok"
    /\ \E k \in 1..(cm_next - 1) :
          /\ ~SomeMatchFails(k)
          /\ Len(MatchesOf(k)) = 2
          /\ Len(LineStringsFor(k)) = 2
          /\ Len(PointsFor(k)) = 1
          /\ PointsFor(k)[1].number_sim = 3
          /\ PointsFor(k)[1].diff = -2
          /\ RecordsFor(k) = <<[reference_traffic |-> 5, simulated_traffic |-> 3,
                                num_sim_segments |-> 2, of |-> k]>>

\* C30: a reference segment that was gone through and has no simulated
\* segment within 20 m is accepted: exactly one feature is written for it,
\* a point with number_sim = 0 and number_connections = 0; no connection
\* LineString and no CSV row.
C30_NoMatchesPassVacuously ==
    \A k \in 1..(cm_next - 1) :
        MatchesOf(k) = <<>> =>
            /\ Len(FeaturesFor(k)) = 1
            /\ FeaturesFor(k)[1].type = "Point"
            /\ FeaturesFor(k)[1].number_sim = 0
            /\ FeaturesFor(k)[1].number_connections = 0
            /\ LineStringsFor(k) = <<>>
            /\ RecordsFor(k) = <<>>

\* compare returned Ok with a simulated tree that is not empty, after a
\* reference segment with traffic that none of its segments is near
C30_Witness ==
    /\ cm_state = "ok"
    /\ sim_traffic # <<>>
    /\ \E k \in 1..(cm_next - 1) :
          /\ ref_traffic[k].number > 0
          /\ MatchesOf(k) = <<>>
          /\ Len(PointsFor(k)) = 1
          /\ PointsFor(k)[1].diff = 0 - ref_traffic[k].number

====
